---- MODULE Spec2Model ----
(***************************************************************************)
(* poetry-cms: the access gate (useAuth, Login, App) and the content       *)
(* persistence hooks (useFirebaseDB, useGitHubDB) as state machines.       *)
(*                                                                         *)
(*   SpecLogin  the Login component wired directly to useAuth.login, a     *)
(*              boolean-returning onLogin                                  *)
(*   FairLogin  SpecLogin with the timer and the effect scheduled fairly   *)
(*   SpecApp    App as wired: Login's onLogin is App.handleLoginSubmit     *)
(*   SpecNav    Login with a boolean-returning onLogin, mounted and        *)
(*              unmounted by App's navigation                              *)
(*   SpecFetch  fetchContent of one hook (Firestore- or GitHub-backed)     *)
(*              over its backend, the browser cache and the static files   *)
(*   FairFetch  SpecFetch with every request answered                      *)
(*   SpecDB     one hook with fetchContent, saveItem, deleteItem in flight *)
(*   SpecHook   SpecDB with saveSettings and saveMeta                      *)
(*   SpecLocal  a hook with no backend configured, over page reloads       *)
(*   SpecTwo    useGitHubDB and a second session on the same repository    *)
(*   SpecMount  useFirebaseDB from its mount effect on                     *)
(***************************************************************************)
EXTENDS Integers, Sequences, FiniteSets, TLC

VARIABLES
    \* useAuth
    isAuthenticated, sessionFlag, authMounted, loginRet,
    \* Login
    attempts, isLocked, lockoutTimer, effectPending, intervalOn,
    \* App
    currentView, menuOpen, selectedItem, navTimers, appLoading,
    \* observation of the run
    lastOp, failStreak,
    \* the content hook: configuration, React state, browser cache
    hook, configured, items, settings, isLoading, error,
    cacheContent, cacheSettings,
    \* the backend: content records, the ordering ledger, the settings record
    remoteItems, remoteMeta, remoteSettings,
    \* the hook's asynchronous operations in flight
    fetchOp, saveOp, deleteOp, opsStarted,
    \* the saveSettings or saveMeta call in flight
    cfgOp,
    \* useFirebaseDB's mount effect: what onAuthStateChanged and
    \* signInAnonymously have reported so far
    fbAuth,
    \* the in-memory items and settings at the last page reload
    beforeReload,
    \* the saveItem or deleteItem call in flight in another session on the
    \* same backend
    otherOp

authVars  == <<isAuthenticated, sessionFlag, authMounted, loginRet>>
loginVars == <<attempts, isLocked, lockoutTimer, effectPending, intervalOn>>
appVars   == <<currentView, menuOpen, selectedItem, navTimers, appLoading>>
obsVars   == <<lastOp, failStreak>>
gateVars  == <<authVars, loginVars, appVars, obsVars>>
hookVars  == <<hook, configured, items, settings, isLoading, error,
               cacheContent, cacheSettings>>
storeVars == <<remoteItems, remoteMeta, remoteSettings>>
opVars    == <<fetchOp, saveOp, deleteOp, opsStarted, cfgOp, fbAuth,
               beforeReload, otherOp>>
dbVars    == <<hookVars, storeVars, opVars>>
vars      == <<gateVars, dbVars>>

(***************************************************************************)
(* Program constants and model bounds                                      *)
(***************************************************************************)
MAX_ATTEMPTS     == 3
LOCKOUT_DURATION == 30

\* the most navigation timers (handleNav's setTimeout) pending at once
MaxTimers == 2
\* the most consecutive wrong passwords a run submits
MaxStreak == 4

ADMIN_PASSWORD == "jacopo"
Passwords      == {"jacopo", "wrong"}

NavViews == {"HOME", "Story", "Poetry", "Quote", "CMS"}
Views    == NavViews \cup {"LOGIN"}

(***************************************************************************)
(* Content data                                                            *)
(***************************************************************************)
\* the longest ordering ledger an initial backend state holds
MaxLedger == 2
\* the most hook operations (fetchContent, saveItem, deleteItem) a run starts
MaxOps == 3
\* the most of them that are calls of fetchContent
MaxFetches == 2

STORY == "Story"
POEM  == "Poetry"
QUOTE == "Quote"

Ids == {"1", "2", "3"}

\* a ContentItem; title "" stands for an absent title
Item(i, t, ti, b) == [id |-> i, type |-> t, title |-> ti, body |-> b]

DEFAULT_CONTENT ==
    << Item("1", QUOTE, "", "default-1"),
       Item("2", STORY, "This Beginning", "default-2") >>

DEFAULT_SETTINGS == "default"

\* the bundled /content/*.json item files, in the order of contentFiles
StaticItems ==
    << Item("1", QUOTE, "", "static-1"),
       Item("2", STORY, "This Beginning", "static-2") >>

\* what the bundled /content/meta.json may hold as contentOrder
StaticOrders == { <<>>, <<"2", "1">> }

\* records a backend holds before the run
R1 == Item("1", QUOTE, "", "remote-1")
R2 == Item("2", STORY, "This Beginning", "remote-2")
R3 == Item("3", POEM, "Roots", "remote-3")
\* a second record carrying id 2, under another title
R2b == Item("2", STORY, "Renamed", "remote-2b")

\* the items the editor saves: an edit of 1, an edit of 2 with a new title, a
\* new item 3, and an edit of 2 whose title slugs like item 3's
ItemPool ==
    { Item("1", QUOTE, "", "edit-1"),
      Item("2", STORY, "Renamed", "edit-2"),
      Item("3", STORY, "Old Clock", "new-3"),
      Item("2", STORY, "Old Clock!", "edit-2c") }

\* title.toLowerCase().replace(/[^a-z0-9]+/g, '-').replace(/^-|-$/g, '')
\* .substring(0, 30), on the titles in use
Slug(title) ==
    CASE title = "This Beginning" -> "this-beginning"
      [] title = "Renamed"        -> "renamed"
      [] title = "Old Clock"      -> "old-clock"
      [] title = "Old Clock!"     -> "old-clock"
      [] title = "Roots"          -> "roots"

generateFilename(item) ==
    LET suffix == IF item.type = STORY THEN "story"
                  ELSE IF item.type = POEM THEN "poem" ELSE "quote"
    IN  IF item.type = QUOTE
        THEN suffix \o "-" \o item.id \o ".json"
        ELSE LET slug == IF item.title # "" THEN Slug(item.title) ELSE item.id
             IN  suffix \o "-" \o slug \o ".json"

\* the key of an item's backend record: the Firestore document id, or the
\* path of the file in the content folder
RecordKey(h, item) == IF h = "firebase" THEN item.id ELSE generateFilename(item)

\* the order in which a backend lists its records: Firestore by document id,
\* the GitHub contents API by file name
KeyOrder ==
    << "1", "2", "3",
       "poem-roots.json", "quote-1.json", "story-old-clock.json",
       "story-renamed.json", "story-this-beginning.json" >>

Range(seq) == { seq[k] : k \in 1..Len(seq) }

IdsOf(seq) == { seq[k].id : k \in 1..Len(seq) }

\* the records of store r in listing order
Listing(r) ==
    LET keys == SelectSeq(KeyOrder, LAMBDA k : k \in DOMAIN r)
    IN  [k \in 1..Len(keys) |-> r[keys[k]]]

\* store r with the record under key written / erased
PutRecord(r, key, item) ==
    [k \in (DOMAIN r) \cup {key} |-> IF k = key THEN item ELSE r[k]]

EraseRecord(r, key) == [k \in (DOMAIN r) \ {key} |-> r[k]]

\* localStorage entries and backend singletons: absent, unparsable, or a value
Absent     == [tag |-> "none"]
Corrupt    == [tag |-> "corrupt"]
Holding(v) == [tag |-> "ok", val |-> v]

(***************************************************************************)
(* Ordering by the ledger                                                  *)
(***************************************************************************)
Infinity == [fin |-> FALSE, ix |-> 0]
Finite(n) == [fin |-> TRUE, ix |-> n]

\* new Map(contentOrder.map((id, index) => [id, index])).get(id): the index
\* of id's last occurrence, or undefined
MapGet(order, id) ==
    IF \E k \in 1..Len(order) : order[k] = id
    THEN Holding((CHOOSE k \in 1..Len(order) :
                     /\ order[k] = id
                     /\ \A j \in (k+1)..Len(order) : order[j] # id) - 1)
    ELSE Absent

OrderKey_FalsyToInfinity(order, id) ==
    LET g == MapGet(order, id)
    IN  IF g.tag = "ok" /\ g.val # 0 THEN Finite(g.val) ELSE Infinity

\* orderMap.get(id) ?? Infinity
OrderKey(order, id) ==
    LET g == MapGet(order, id)
    IN  IF g.tag = "ok" THEN Finite(g.val) ELSE Infinity

\* the sign Array.prototype.sort takes from orderA - orderB; NaN (Infinity
\* minus Infinity) counts as 0
Compare(order, a, b) ==
    LET orderA == OrderKey(order, a.id)
        orderB == OrderKey(order, b.id)
    IN  CASE orderA.fin /\ orderB.fin   ->
               (IF orderA.ix < orderB.ix THEN -1
                ELSE IF orderA.ix > orderB.ix THEN 1 ELSE 0)
          [] orderA.fin /\ ~orderB.fin  -> -1
          [] ~orderA.fin /\ orderB.fin  -> 1
          [] ~orderA.fin /\ ~orderB.fin -> 0

RECURSIVE InsertStable(_, _, _)
InsertStable(order, sorted, x) ==
    IF sorted = <<>> THEN <<x>>
    ELSE IF Compare(order, Head(sorted), x) > 0 THEN <<x>> \o sorted
    ELSE <<Head(sorted)>> \o InsertStable(order, Tail(sorted), x)

RECURSIVE StableSort(_, _, _)
StableSort(order, done, rest) ==
    IF rest = <<>> THEN done
    ELSE StableSort(order, InsertStable(order, done, Head(rest)), Tail(rest))

\* "Sort by content order": the (stable) sort runs only for a non-empty ledger
SortByOrder(loaded, order) ==
    IF Len(order) > 0 THEN StableSort(order, <<>>, loaded) ELSE loaded

(***************************************************************************)
(* The in-memory updates of saveItem and deleteItem                        *)
(***************************************************************************)
SaveLocal_AlwaysPrepend(prev, item) == <<item>> \o prev

\* setItems(prev => exists ? prev.map(...) : [item, ...prev])
SaveLocal(prev, item) ==
    IF \E k \in 1..Len(prev) : prev[k].id = item.id
    THEN [k \in 1..Len(prev) |-> IF prev[k].id = item.id THEN item ELSE prev[k]]
    ELSE <<item>> \o prev

\* a deleteItem that drops the first item whatever its id
DeleteLocal_DropsHead(prev, id) == IF Len(prev) = 0 THEN prev ELSE Tail(prev)

\* setItems(prev => prev.filter(i => i.id !== id))
DeleteLocal(prev, id) == SelectSeq(prev, LAMBDA i : i.id # id)

\* currentOrder.filter(itemId => itemId !== id)
WithoutId(order, id) == SelectSeq(order, LAMBDA x : x # id)

\* the hook variables in the specifications of the access gate
DBUnused ==
    /\ hook = "none" /\ configured = FALSE /\ items = <<>>
    /\ settings = DEFAULT_SETTINGS /\ isLoading = TRUE /\ error = FALSE
    /\ cacheContent = Absent /\ cacheSettings = Absent
    /\ remoteItems = <<>> /\ remoteMeta = Absent /\ remoteSettings = Absent
    /\ fetchOp = [pc |-> "init"] /\ saveOp = [pc |-> "idle"]
    /\ deleteOp = [pc |-> "idle"] /\ opsStarted = 0
    /\ cfgOp = [pc |-> "idle"] /\ fbAuth = "unused"
    /\ beforeReload = [reloaded |-> FALSE] /\ otherOp = [pc |-> "idle"]

(***************************************************************************)
(* useAuth                                                                 *)
(***************************************************************************)
\* login's return value
LoginReturn(p) == p = ADMIN_PASSWORD

\* what a caller of onLogin receives: a boolean, or (from an async function) a
\* Promise of one
BoolValue(b)    == [kind |-> "boolean", value |-> b]
PromiseValue(b) == [kind |-> "promise", value |-> b]

\* JavaScript truthiness of such a value: every object, a Promise included, is
\* truthy
Truthy(v) == IF v.kind = "promise" THEN TRUE ELSE v.value

RetName(b) == IF b THEN "true" ELSE "false"

\* login's effect on the hook state and on sessionStorage
AuthLogin(p) ==
    IF p = ADMIN_PASSWORD
    THEN isAuthenticated' = TRUE /\ sessionFlag' = "true"
    ELSE UNCHANGED <<isAuthenticated, sessionFlag>>

AuthLogout_KeepsFlag ==
    isAuthenticated' = FALSE /\ UNCHANGED sessionFlag

AuthLogout ==
    isAuthenticated' = FALSE /\ sessionFlag' = "null"

\* the mount effect: checkAuth reads the session flag
CheckAuth ==
    /\ ~authMounted
    /\ authMounted' = TRUE
    /\ isAuthenticated' = (IF sessionFlag = "true" THEN TRUE ELSE isAuthenticated)
    /\ UNCHANGED sessionFlag

(***************************************************************************)
(* Login                                                                   *)
(***************************************************************************)
\* useState initial values; the effect runs once after mount
LoginFresh(pending) ==
    /\ attempts' = 0
    /\ isLocked' = FALSE
    /\ lockoutTimer' = 0
    /\ effectPending' = pending
    /\ intervalOn' = FALSE

HandleSubmitResult_NoLock(success) ==
    IF success
    THEN UNCHANGED loginVars
    ELSE /\ attempts' = attempts + 1
         /\ UNCHANGED <<isLocked, lockoutTimer, effectPending, intervalOn>>

\* handleSubmit after the isLocked check, given the truthiness of what onLogin
\* returned
HandleSubmitResult(success) ==
    IF success
    THEN UNCHANGED loginVars
    ELSE LET nextAttempts == attempts + 1 IN
         /\ attempts' = nextAttempts
         /\ IF nextAttempts >= MAX_ATTEMPTS
            THEN /\ isLocked' = TRUE
                 /\ lockoutTimer' = LOCKOUT_DURATION
                 /\ effectPending' = TRUE
            ELSE UNCHANGED <<isLocked, lockoutTimer, effectPending>>
         /\ UNCHANGED intervalOn

LockoutEffect_KeepsAttempts ==
    /\ effectPending
    /\ intervalOn' = (isLocked /\ lockoutTimer > 0)
    /\ IF lockoutTimer = 0 /\ isLocked
       THEN isLocked' = FALSE /\ effectPending' = TRUE
       ELSE effectPending' = FALSE /\ UNCHANGED isLocked
    /\ UNCHANGED <<attempts, lockoutTimer>>

\* the useEffect on [isLocked, lockoutTimer]: the previous run's cleanup clears
\* its interval, then the body runs
LockoutEffect ==
    /\ effectPending
    /\ intervalOn' = (isLocked /\ lockoutTimer > 0)
    /\ IF lockoutTimer = 0 /\ isLocked
       THEN isLocked' = FALSE /\ attempts' = 0 /\ effectPending' = TRUE
       ELSE effectPending' = FALSE /\ UNCHANGED <<isLocked, attempts>>
    /\ UNCHANGED lockoutTimer

\* one firing of the interval the effect installed. The effect that follows a
\* state change replaces the interval well within its 1000 ms period, so an
\* interval fires once per effect run.
IntervalTick ==
    /\ intervalOn
    /\ ~effectPending
    /\ lockoutTimer' = lockoutTimer - 1
    /\ effectPending' = TRUE
    /\ UNCHANGED <<attempts, isLocked, intervalOn>>

(***************************************************************************)
(* SpecLogin: Login with onLogin = useAuth.login                           *)
(***************************************************************************)
AppIdle ==
    /\ currentView = "LOGIN" /\ menuOpen = FALSE /\ selectedItem = FALSE
    /\ navTimers = {} /\ appLoading = FALSE

InitLogin ==
    /\ isAuthenticated = FALSE /\ sessionFlag = "null" /\ authMounted = TRUE
    /\ loginRet = "none"
    /\ attempts = 0 /\ isLocked = FALSE /\ lockoutTimer = 0
    /\ effectPending = TRUE /\ intervalOn = FALSE
    /\ AppIdle
    /\ lastOp = "init" /\ failStreak = 0
    /\ DBUnused

\* the wrong passwords submitted to this Login instance since it was mounted or
\* last unlocked (handleSubmit's success branch leaves the count alone)
StreakAfter(p) == IF LoginReturn(p) THEN failStreak ELSE failStreak + 1

SubmitDirect_NoLockCheck(p) ==
    /\ UNCHANGED dbVars
    /\ AuthLogin(p)
    /\ loginRet' = RetName(LoginReturn(p))
    /\ HandleSubmitResult(Truthy(BoolValue(LoginReturn(p))))
    /\ lastOp' = "submit"
    /\ failStreak' = IF isLocked THEN failStreak ELSE StreakAfter(p)
    /\ UNCHANGED <<authMounted, appVars>>

\* Login.handleSubmit with the password p typed in
SubmitDirect(p) ==
    /\ UNCHANGED dbVars
    /\ IF isLocked
       THEN /\ loginRet' = "none"
            /\ lastOp' = "submit_locked"
            /\ UNCHANGED <<isAuthenticated, sessionFlag, loginVars, failStreak>>
       ELSE /\ AuthLogin(p)
            /\ loginRet' = RetName(LoginReturn(p))
            /\ HandleSubmitResult(Truthy(BoolValue(LoginReturn(p))))
            /\ lastOp' = "submit"
            /\ failStreak' = StreakAfter(p)
    /\ UNCHANGED <<authMounted, appVars>>

TickL ==
    /\ UNCHANGED dbVars
    /\ IntervalTick
    /\ loginRet' = "none" /\ lastOp' = "tick"
    /\ UNCHANGED <<isAuthenticated, sessionFlag, authMounted, appVars, failStreak>>

EffectL ==
    /\ UNCHANGED dbVars
    /\ LockoutEffect
    /\ loginRet' = "none"
    /\ lastOp' = (IF lockoutTimer = 0 /\ isLocked THEN "unlock" ELSE "effect")
    /\ failStreak' = (IF lockoutTimer = 0 /\ isLocked THEN 0 ELSE failStreak)
    /\ UNCHANGED <<isAuthenticated, sessionFlag, authMounted, appVars>>

LogoutL ==
    /\ UNCHANGED dbVars
    /\ isAuthenticated
    /\ AuthLogout
    /\ loginRet' = "none" /\ lastOp' = "logout"
    /\ UNCHANGED <<authMounted, loginVars, appVars, failStreak>>

NextLogin ==
    \/ \E p \in Passwords : SubmitDirect(p)
    \/ TickL
    \/ EffectL
    \/ LogoutL

SpecLogin == InitLogin /\ [][NextLogin]_vars

\* the browser fires an installed interval and React runs a pending effect
FairLogin == SpecLogin /\ WF_vars(TickL) /\ WF_vars(EffectL)

(***************************************************************************)
(* SpecApp: App as wired (useAuth, handleNav, handleLoginSubmit, render)   *)
(***************************************************************************)
ListViews == {"HOME", "Story", "Poetry", "Quote"}

RenderedView_NoAuthGuard ==
    IF appLoading THEN "LOADING"
    ELSE IF selectedItem THEN "DETAIL"
    ELSE currentView

\* what App's render puts in <main>: the loading screen, the detail view, or
\* the view currentView names; the CMS editor only if isAuthenticated as well
RenderedView ==
    IF appLoading THEN "LOADING"
    ELSE IF selectedItem THEN "DETAIL"
    ELSE IF currentView = "CMS"
         THEN (IF isAuthenticated THEN "CMS" ELSE "NONE")
         ELSE currentView

\* <Login> is mounted exactly while it is rendered
LoginShown == RenderedView = "LOGIN"

\* Login's component state across a change of what App renders: kept while
\* Login stays mounted, fresh when it is mounted, gone when it is unmounted
LoginFollows ==
    /\ IF LoginShown'
       THEN (IF LoginShown THEN UNCHANGED loginVars ELSE LoginFresh(TRUE))
       ELSE LoginFresh(FALSE)
    /\ failStreak' = (IF LoginShown /\ LoginShown' THEN failStreak ELSE 0)

InitApp ==
    /\ isAuthenticated = FALSE /\ sessionFlag \in {"null", "true"}
    /\ authMounted = FALSE /\ loginRet = "none"
    /\ attempts = 0 /\ isLocked = FALSE /\ lockoutTimer = 0
    /\ effectPending = FALSE /\ intervalOn = FALSE
    /\ currentView = "HOME" /\ menuOpen = FALSE /\ selectedItem = FALSE
    /\ navTimers = {} /\ appLoading = TRUE
    /\ lastOp = "init" /\ failStreak = 0
    /\ DBUnused

\* useAuth's mount effect
AuthMountA ==
    /\ UNCHANGED dbVars
    /\ CheckAuth
    /\ loginRet' = "none" /\ lastOp' = "auth_mount"
    /\ UNCHANGED <<loginVars, appVars, failStreak>>

\* the content hook's first load ends: App stops returning <LoadingView />
AppLoaded ==
    /\ UNCHANGED dbVars
    /\ appLoading
    /\ appLoading' = FALSE
    /\ loginRet' = "none" /\ lastOp' = "loaded"
    /\ UNCHANGED <<isAuthenticated, sessionFlag, authMounted>>
    /\ UNCHANGED <<currentView, menuOpen, selectedItem, navTimers>>
    /\ LoginFollows

\* the hamburger button
ToggleMenu ==
    /\ UNCHANGED dbVars
    /\ ~appLoading
    /\ menuOpen' = ~menuOpen
    /\ loginRet' = "none" /\ lastOp' = "menu"
    /\ UNCHANGED <<isAuthenticated, sessionFlag, authMounted, loginVars, failStreak>>
    /\ UNCHANGED <<currentView, selectedItem, navTimers, appLoading>>

\* handleNav(view), from a menu link: closes the menu and arms the 400 ms
\* timer, whose callback keeps the isAuthenticated of the render it was
\* created in
HandleNav(view) ==
    /\ UNCHANGED dbVars
    /\ ~appLoading /\ menuOpen
    /\ LET t == [view |-> view, auth |-> isAuthenticated] IN
       /\ t \in navTimers \/ Cardinality(navTimers) < MaxTimers
       /\ navTimers' = navTimers \cup {t}
    /\ menuOpen' = FALSE
    /\ loginRet' = "none" /\ lastOp' = "nav"
    /\ UNCHANGED <<isAuthenticated, sessionFlag, authMounted, loginVars, failStreak>>
    /\ UNCHANGED <<currentView, selectedItem, appLoading>>

NavTarget_NoLoginRedirect(t) == t.view

\* the view the timer's callback switches to
NavTarget(t) == IF t.view = "CMS" /\ ~t.auth THEN "LOGIN" ELSE t.view

\* the timer armed by handleNav fires
NavFire(t) ==
    /\ UNCHANGED dbVars
    /\ t \in navTimers
    /\ navTimers' = navTimers \ {t}
    /\ selectedItem' = FALSE
    /\ currentView' = NavTarget(t)
    /\ loginRet' = "none" /\ lastOp' = "nav_fire"
    /\ UNCHANGED <<isAuthenticated, sessionFlag, authMounted, menuOpen, appLoading>>
    /\ LoginFollows

HandleItemClick ==
    /\ UNCHANGED dbVars
    /\ RenderedView \in ListViews
    /\ selectedItem' = TRUE
    /\ loginRet' = "none" /\ lastOp' = "item"
    /\ UNCHANGED <<isAuthenticated, sessionFlag, authMounted>>
    /\ UNCHANGED <<currentView, menuOpen, navTimers, appLoading>>
    /\ LoginFollows

HandleBack ==
    /\ UNCHANGED dbVars
    /\ RenderedView = "DETAIL"
    /\ selectedItem' = FALSE
    /\ loginRet' = "none" /\ lastOp' = "back"
    /\ UNCHANGED <<isAuthenticated, sessionFlag, authMounted>>
    /\ UNCHANGED <<currentView, menuOpen, navTimers, appLoading>>
    /\ LoginFollows

HandleHomeClick ==
    /\ UNCHANGED dbVars
    /\ ~appLoading /\ ~menuOpen
    /\ selectedItem' = FALSE
    /\ currentView' = "HOME"
    /\ loginRet' = "none" /\ lastOp' = "home"
    /\ UNCHANGED <<isAuthenticated, sessionFlag, authMounted>>
    /\ UNCHANGED <<menuOpen, navTimers, appLoading>>
    /\ LoginFollows

\* what handleLoginSubmit hands back to Login: it is an async function
HandleLoginSubmitValue(p) == PromiseValue(LoginReturn(p))

\* Login.handleSubmit with onLogin = handleLoginSubmit: login(p) runs at once,
\* Login reads the returned value's truthiness, and handleLoginSubmit's
\* continuation switches to the CMS view on success
SubmitApp(p) ==
    /\ UNCHANGED dbVars
    /\ LoginShown
    /\ UNCHANGED <<authMounted, menuOpen, selectedItem, navTimers, appLoading>>
    /\ IF isLocked
       THEN /\ loginRet' = "none" /\ lastOp' = "submit_locked"
            /\ UNCHANGED <<isAuthenticated, sessionFlag, loginVars, currentView>>
            /\ UNCHANGED failStreak
       ELSE /\ LoginReturn(p) \/ failStreak < MaxStreak
            /\ AuthLogin(p)
            /\ loginRet' = RetName(LoginReturn(p))
            /\ lastOp' = "submit"
            /\ IF LoginReturn(p)
               THEN /\ currentView' = "CMS"
                    /\ LoginFresh(FALSE)
                    /\ failStreak' = 0
               ELSE /\ UNCHANGED currentView
                    /\ HandleSubmitResult(Truthy(HandleLoginSubmitValue(p)))
                    /\ failStreak' = StreakAfter(p)

\* Login's effect while it is mounted in App. (No interval is ever installed
\* under this wiring, see AppNeverLocks, so no tick is part of NextApp.)
EffectA ==
    /\ UNCHANGED dbVars
    /\ LoginShown
    /\ LockoutEffect
    /\ loginRet' = "none"
    /\ lastOp' = (IF lockoutTimer = 0 /\ isLocked THEN "unlock" ELSE "effect")
    /\ failStreak' = (IF lockoutTimer = 0 /\ isLocked THEN 0 ELSE failStreak)
    /\ UNCHANGED <<isAuthenticated, sessionFlag, authMounted, appVars>>

\* handleLogout, the CMS editor's logout button
HandleLogout ==
    /\ UNCHANGED dbVars
    /\ RenderedView = "CMS"
    /\ AuthLogout
    /\ currentView' = "HOME"
    /\ loginRet' = "none" /\ lastOp' = "logout"
    /\ UNCHANGED <<authMounted, menuOpen, selectedItem, navTimers, appLoading>>
    /\ LoginFollows

\* the page is reloaded: all component state is lost, sessionStorage is kept
Reload ==
    /\ UNCHANGED dbVars
    /\ lastOp # "init"
    /\ isAuthenticated' = FALSE /\ authMounted' = FALSE
    /\ UNCHANGED sessionFlag
    /\ LoginFresh(FALSE)
    /\ currentView' = "HOME" /\ menuOpen' = FALSE /\ selectedItem' = FALSE
    /\ navTimers' = {} /\ appLoading' = TRUE
    /\ loginRet' = "none" /\ lastOp' = "reload" /\ failStreak' = 0

NextApp ==
    \/ AuthMountA
    \/ AppLoaded
    \/ ToggleMenu
    \/ \E v \in NavViews : HandleNav(v)
    \/ \E t \in navTimers : NavFire(t)
    \/ HandleItemClick
    \/ HandleBack
    \/ HandleHomeClick
    \/ \E p \in Passwords : SubmitApp(p)
    \/ EffectA
    \/ HandleLogout
    \/ Reload

SpecApp == InitApp /\ [][NextApp]_vars

(***************************************************************************)
(* SpecNav: Login with a boolean-returning onLogin (useAuth.login),        *)
(* mounted by App's render while currentView is LOGIN, under App's         *)
(* navigation                                                              *)
(***************************************************************************)
\* Login.handleSubmit while Login is mounted
SubmitNav(p) == LoginShown /\ SubmitDirect(p)

\* the interval of the mounted Login fires
TickNav == LoginShown /\ TickL

InitNav == InitLogin

NextNav ==
    \/ \E p \in Passwords : SubmitNav(p)
    \/ TickNav
    \/ EffectA
    \/ ToggleMenu
    \/ \E v \in NavViews : HandleNav(v)
    \/ \E t \in navTimers : NavFire(t)
    \/ HandleItemClick
    \/ HandleBack
    \/ HandleHomeClick
    \/ HandleLogout

SpecNav == InitNav /\ [][NextNav]_vars

(***************************************************************************)
(* fetchContent (both hooks)                                               *)
(*                                                                         *)
(* fetchOp is the call in flight: pc is the await it stands at; loaded and *)
(* order are loadedContent and contentOrder; saved and savedS are the      *)
(* GitHub hook's savedContent and savedSettings. The other fields record   *)
(* the path taken: backend (how the backend read ended), parseFailed (a    *)
(* JSON.parse of a cache entry threw), staticTried and staticGot (the      *)
(* bundled files were fetched, and those that loaded), staticOrder (the    *)
(* contentOrder the bundled meta.json held then), source (where the stored *)
(* items came from).                                                       *)
(***************************************************************************)
FetchFresh ==
    [pc |-> "start", n |-> 0, loaded |-> <<>>, order |-> <<>>,
     saved |-> Absent, savedS |-> Absent,
     backend |-> "skipped", parseFailed |-> FALSE,
     staticTried |-> FALSE, staticGot |-> <<>>, staticOrder |-> <<>>,
     source |-> "none"]

FetchRunning == fetchOp.pc \notin {"init", "idle"}

\* the static item files that answer with res.ok, in contentFiles order
StaticLoads ==
    { SelectSeq(StaticItems, LAMBDA i : i.id \in S) : S \in SUBSET IdsOf(StaticItems) }

\* the fetch returns having stored its items
FetchReturns(f, newItems, newSettings, src) ==
    /\ items' = newItems
    /\ settings' = newSettings
    /\ isLoading' = FALSE
    /\ error' = FALSE
    /\ fetchOp' = [f EXCEPT !.pc = "idle", !.source = src]

\* the fetch goes on to the await named pc
FetchAwaits(f, newItems, newSettings, pc) ==
    /\ items' = newItems
    /\ settings' = newSettings
    /\ isLoading' = TRUE
    /\ error' = FALSE
    /\ fetchOp' = [f EXCEPT !.pc = pc]

\* a catch that forgets setIsLoading(false)
FBCatch_LeavesLoading(f) ==
    /\ items' = DEFAULT_CONTENT
    /\ UNCHANGED settings
    /\ isLoading' = TRUE
    /\ error' = TRUE
    /\ fetchOp' = [f EXCEPT !.pc = "idle", !.source = "catch"]

\* useFirebaseDB's outer catch
FBCatch(f) ==
    /\ items' = DEFAULT_CONTENT
    /\ UNCHANGED settings
    /\ isLoading' = FALSE
    /\ error' = TRUE
    /\ fetchOp' = [f EXCEPT !.pc = "idle", !.source = "catch"]

\* useFirebaseDB, from "Fallback: Load from static files or localStorage" to
\* the first await: the cache is read here, and a JSON.parse that throws
\* lands in the outer catch
FBCacheStage(f) ==
    IF cacheContent.tag = "none"
    THEN FetchAwaits(f, items, settings, "static")
    ELSE IF cacheContent.tag = "corrupt"
              \/ (cacheContent.tag = "ok" /\ cacheSettings.tag = "corrupt")
    THEN FBCatch([f EXCEPT !.parseFailed = TRUE])
    ELSE FetchReturns(f, cacheContent.val,
                      IF cacheSettings.tag = "ok" THEN cacheSettings.val ELSE settings,
                      "cache")

\* useGitHubDB, from "Fallback: Load from local JSON files" to the first
\* await, on the savedContent and savedSettings read when the call began; a
\* JSON.parse that throws is caught and the static files are loaded
GHCacheStage(f) ==
    IF f.saved.tag = "none"
    THEN FetchAwaits(f, items, settings, "static")
    ELSE IF f.saved.tag = "corrupt"
    THEN FetchAwaits([f EXCEPT !.parseFailed = TRUE], items, settings, "static")
    ELSE IF f.savedS.tag = "corrupt"
    THEN FetchAwaits([f EXCEPT !.parseFailed = TRUE], f.saved.val, settings, "static")
    ELSE FetchReturns(f, f.saved.val,
                      IF f.savedS.tag = "ok" THEN f.savedS.val ELSE settings,
                      "cache")

\* fetchContent is called: up to its first await
FetchCall ==
    /\ ~FetchRunning
    /\ opsStarted < MaxOps /\ fetchOp.n < MaxFetches
    /\ opsStarted' = opsStarted + 1
    /\ IF hook = "firebase"
       THEN LET f == [FetchFresh EXCEPT !.n = fetchOp.n + 1] IN
            IF configured
            THEN FetchAwaits([f EXCEPT !.backend = "pending"],
                             items, settings, "fb_settings")
            ELSE FBCacheStage(f)
       ELSE LET f == [FetchFresh EXCEPT !.n = fetchOp.n + 1,
                                        !.saved = cacheContent,
                                        !.savedS = cacheSettings]
            IN  IF configured
                THEN FetchAwaits([f EXCEPT !.backend = "pending"],
                                 items, settings, "gh_settings")
                ELSE GHCacheStage(f)
    /\ UNCHANGED <<hook, configured, cacheContent, cacheSettings>>
    /\ UNCHANGED <<storeVars, saveOp, deleteOp, cfgOp, beforeReload, otherOp, gateVars>>

\* fetchContent is called once the mount effect has got as far as calling
\* it, or again through refetch
FetchStart == FetchCall /\ UNCHANGED fbAuth

\* getDoc(config/settings) answers
FBSettings ==
    /\ hook = "firebase" /\ fetchOp.pc = "fb_settings"
    /\ \E ok \in BOOLEAN :
         IF ok
         THEN FetchAwaits(fetchOp, items,
                          IF remoteSettings.tag = "ok" THEN remoteSettings.val
                          ELSE settings,
                          "fb_content")
         ELSE FBCatch([fetchOp EXCEPT !.backend = "error"])
    /\ UNCHANGED <<hook, configured, cacheContent, cacheSettings>>
    /\ UNCHANGED <<storeVars, saveOp, deleteOp, opsStarted, cfgOp, fbAuth, beforeReload, otherOp, gateVars>>

\* getDocs(content) answers
FBContent ==
    /\ hook = "firebase" /\ fetchOp.pc = "fb_content"
    /\ \E ok \in BOOLEAN :
         IF ok
         THEN FetchAwaits([fetchOp EXCEPT !.loaded = Listing(remoteItems)],
                          items, settings, "fb_meta")
         ELSE FBCatch([fetchOp EXCEPT !.backend = "error"])
    /\ UNCHANGED <<hook, configured, cacheContent, cacheSettings>>
    /\ UNCHANGED <<storeVars, saveOp, deleteOp, opsStarted, cfgOp, fbAuth, beforeReload, otherOp, gateVars>>

\* getDoc(config/meta) answers: sort, store, or fall back
FBMeta ==
    /\ hook = "firebase" /\ fetchOp.pc = "fb_meta"
    /\ \E ok \in BOOLEAN :
         IF ok
         THEN LET contentOrder == IF remoteMeta.tag = "ok" THEN remoteMeta.val
                                  ELSE <<>>
                  sorted == SortByOrder(fetchOp.loaded, contentOrder)
              IN  IF Len(sorted) > 0
                  THEN FetchReturns([fetchOp EXCEPT !.order = contentOrder,
                                                    !.backend = "ok"],
                                    sorted, settings, "backend")
                  ELSE FBCacheStage([fetchOp EXCEPT !.order = contentOrder,
                                                    !.backend = "empty"])
         ELSE FBCatch([fetchOp EXCEPT !.backend = "error"])
    /\ UNCHANGED <<hook, configured, cacheContent, cacheSettings>>
    /\ UNCHANGED <<storeVars, saveOp, deleteOp, opsStarted, cfgOp, fbAuth, beforeReload, otherOp, gateVars>>

\* useFirebaseDB "Load from static files": settings.json (may answer, answer
\* not-ok, or throw: a rejected fetch or a body that is no JSON), then each
\* item file under its own try/catch; the bundled meta.json (bundled) is not
\* fetched
FBStatic ==
    /\ hook = "firebase" /\ fetchOp.pc = "static"
    /\ \E sres \in {"ok", "notok", "throw"}, got \in StaticLoads,
          bundled \in StaticOrders :
         LET f == [fetchOp EXCEPT !.staticTried = TRUE,
                                  !.staticOrder = bundled] IN
         IF sres = "throw"
         THEN FBCatch(f)
         ELSE FetchReturns([f EXCEPT !.staticGot = got],
                           IF Len(got) > 0 THEN got ELSE DEFAULT_CONTENT,
                           IF sres = "ok" THEN "static" ELSE settings,
                           IF Len(got) > 0 THEN "static" ELSE "default")
    /\ UNCHANGED <<hook, configured, cacheContent, cacheSettings>>
    /\ UNCHANGED <<storeVars, saveOp, deleteOp, opsStarted, cfgOp, fbAuth, beforeReload, otherOp, gateVars>>

\* getFileContent(settings.json) answers (null on any failure)
GHSettings ==
    /\ hook = "github" /\ fetchOp.pc = "gh_settings"
    /\ \E ok \in BOOLEAN :
         IF ok /\ remoteSettings.tag = "ok"
         THEN /\ FetchAwaits(fetchOp, items, remoteSettings.val, "gh_meta")
              /\ cacheSettings' = Holding(remoteSettings.val)
         ELSE /\ UNCHANGED cacheSettings
              /\ IF fetchOp.savedS.tag = "ok"
                 THEN FetchAwaits(fetchOp, items, fetchOp.savedS.val, "gh_meta")
                 ELSE IF fetchOp.savedS.tag = "corrupt"
                 THEN GHCacheStage([fetchOp EXCEPT !.backend = "aborted",
                                                   !.parseFailed = TRUE])
                 ELSE FetchAwaits(fetchOp, items, settings, "gh_meta")
    /\ UNCHANGED <<hook, configured, cacheContent>>
    /\ UNCHANGED <<storeVars, saveOp, deleteOp, opsStarted, cfgOp, fbAuth, beforeReload, otherOp, gateVars>>

\* getFileContent(meta.json) answers
GHMeta ==
    /\ hook = "github" /\ fetchOp.pc = "gh_meta"
    /\ \E ok \in BOOLEAN :
         LET contentOrder == IF ok /\ remoteMeta.tag = "ok" THEN remoteMeta.val
                             ELSE <<>>
         IN  FetchAwaits([fetchOp EXCEPT !.order = contentOrder],
                         items, settings, "gh_files")
    /\ UNCHANGED <<hook, configured, cacheContent, cacheSettings>>
    /\ UNCHANGED <<storeVars, saveOp, deleteOp, opsStarted, cfgOp, fbAuth, beforeReload, otherOp, gateVars>>

\* listFiles and the getFileContent of each content file answer: the files in
\* readable are those that were listed and read; then sort, store, or fall back
GHFiles ==
    /\ hook = "github" /\ fetchOp.pc = "gh_files"
    /\ \E readable \in SUBSET (DOMAIN remoteItems) :
         LET loadedContent == Listing([k \in readable |-> remoteItems[k]])
             sorted == SortByOrder(loadedContent, fetchOp.order)
             f == [fetchOp EXCEPT !.loaded = loadedContent]
         IN  IF Len(sorted) > 0
             THEN /\ FetchReturns([f EXCEPT !.backend = "ok"],
                                  sorted, settings, "backend")
                  /\ cacheContent' = Holding(sorted)
             ELSE /\ GHCacheStage([f EXCEPT !.backend = "empty"])
                  /\ UNCHANGED cacheContent
    /\ UNCHANGED <<hook, configured, cacheSettings>>
    /\ UNCHANGED <<storeVars, saveOp, deleteOp, opsStarted, cfgOp, fbAuth, beforeReload, otherOp, gateVars>>

\* useGitHubDB "Load from static files": settings.json, meta.json and each
\* item file under their own try/catch; the result is sorted by the bundled
\* ledger and written to the cache
GHStatic ==
    /\ hook = "github" /\ fetchOp.pc = "static"
    /\ \E sok \in BOOLEAN, contentOrder \in StaticOrders, got \in StaticLoads :
         LET sorted == SortByOrder(got, contentOrder)
             finalContent == IF Len(sorted) > 0 THEN sorted ELSE DEFAULT_CONTENT
             siteSettings == IF sok THEN "static" ELSE DEFAULT_SETTINGS
         IN  /\ FetchReturns([fetchOp EXCEPT !.staticTried = TRUE,
                                             !.staticGot = got,
                                             !.staticOrder = contentOrder],
                             finalContent,
                             IF sok THEN "static" ELSE settings,
                             IF Len(sorted) > 0 THEN "static" ELSE "default")
             /\ cacheContent' = Holding(finalContent)
             /\ cacheSettings' = Holding(siteSettings)
    /\ UNCHANGED <<hook, configured>>
    /\ UNCHANGED <<storeVars, saveOp, deleteOp, opsStarted, cfgOp, fbAuth, beforeReload, otherOp, gateVars>>

(***************************************************************************)
(* saveItem (both hooks)                                                   *)
(*                                                                         *)
(* saveOp is the call in flight: pc is the await it stands at, item its    *)
(* argument, exists whether the list held its id when the call was made,   *)
(* sha the revision read for the item's file, order and metaSha            *)
(* the ledger and its revision as read; ret is what the last call returned.*)
(* A file's revision (its blob sha) is a function of its content, so the   *)
(* content stands for it.                                                  *)
(***************************************************************************)
NoItem == Item("", "", "", "")

SaveIdle(ret, item) ==
    [pc |-> "idle", ret |-> ret, item |-> item, exists |-> FALSE,
     sha |-> Absent, order |-> <<>>, metaSha |-> Absent]

\* the record or singleton under a key, as a getFileContent that succeeds
\* sees it
FileAt(r, key) == IF key \in DOMAIN r THEN Holding(r[key]) ELSE Absent

\* a contents API that takes any PUT, whatever sha comes with it
PutOutcomes_LastWriterWins(current, sha) == {FALSE, TRUE}

\* the answers the contents API may give to a PUT: a request may always fail;
\* it is accepted without a sha for a path that holds no file, and with the
\* sha of the file the path holds; with a sha for a path that holds no file
\* either answer is possible
PutOutcomes(current, sha) ==
    {FALSE}
        \cup (IF (sha.tag = "none" /\ current.tag = "none")
                  \/ (sha.tag = "ok" /\ current = sha)
                  \/ (sha.tag = "ok" /\ current.tag = "none")
              THEN {TRUE} ELSE {})

\* ... and to a DELETE: accepted with the sha of the file the path holds
DeleteOutcomes(current, sha) ==
    {FALSE} \cup (IF sha.tag = "ok" /\ current = sha THEN {TRUE} ELSE {})

SaveRunning == saveOp.pc # "idle"

\* the call in flight returns ret
SaveReturns(ret) == [SaveIdle(ret, saveOp.item) EXCEPT !.exists = saveOp.exists]

\* a saveItem that issues its first request and leaves the in-memory list
\* for later
SaveStart_RemoteFirst(item) ==
    /\ ~SaveRunning /\ fetchOp.pc # "init"
    /\ opsStarted < MaxOps
    /\ opsStarted' = opsStarted + 1
    /\ LET exists == \E k \in 1..Len(items) : items[k].id = item.id IN
       saveOp' = IF configured
                 THEN [SaveIdle("none", item) EXCEPT
                          !.pc = IF hook = "firebase" THEN "fb_set" ELSE "gh_get",
                          !.exists = exists]
                 ELSE [SaveIdle("true", item) EXCEPT !.exists = exists]
    /\ UNCHANGED <<hookVars, storeVars>>
    /\ UNCHANGED <<fetchOp, deleteOp, cfgOp, fbAuth, beforeReload, otherOp, gateVars>>

\* saveItem(item) is called: the in-memory update (and, in the GitHub hook,
\* the cache write inside it), up to the first await
SaveStart(item) ==
    /\ ~SaveRunning /\ fetchOp.pc # "init"
    /\ opsStarted < MaxOps
    /\ opsStarted' = opsStarted + 1
    /\ items' = SaveLocal(items, item)
    /\ cacheContent' = (IF hook = "github" THEN Holding(items') ELSE cacheContent)
    /\ LET exists == \E k \in 1..Len(items) : items[k].id = item.id IN
       saveOp' = IF configured
                 THEN [SaveIdle("none", item) EXCEPT
                          !.pc = IF hook = "firebase" THEN "fb_set" ELSE "gh_get",
                          !.exists = exists]
                 ELSE [SaveIdle("true", item) EXCEPT !.exists = exists]
    /\ UNCHANGED <<hook, configured, settings, isLoading, error, cacheSettings>>
    /\ UNCHANGED <<storeVars, fetchOp, deleteOp, cfgOp, fbAuth, beforeReload, otherOp, gateVars>>

\* a setDoc whose rejection is swallowed: the save still returns true
FBSaveSet_SwallowsFailure ==
    /\ hook = "firebase" /\ saveOp.pc = "fb_set"
    /\ \E ok \in BOOLEAN :
         IF ok
         THEN /\ remoteItems' = PutRecord(remoteItems, saveOp.item.id, saveOp.item)
              /\ saveOp' = [saveOp EXCEPT !.pc = "fb_meta_get"]
         ELSE /\ UNCHANGED remoteItems
              /\ saveOp' = SaveReturns("true")
    /\ UNCHANGED <<hookVars, remoteMeta, remoteSettings>>
    /\ UNCHANGED <<fetchOp, deleteOp, opsStarted, cfgOp, fbAuth, beforeReload, otherOp, gateVars>>

\* setDoc(content/<id>, item) answers
FBSaveSet ==
    /\ hook = "firebase" /\ saveOp.pc = "fb_set"
    /\ \E ok \in BOOLEAN :
         IF ok
         THEN /\ remoteItems' = PutRecord(remoteItems, saveOp.item.id, saveOp.item)
              /\ saveOp' = [saveOp EXCEPT !.pc = "fb_meta_get"]
         ELSE /\ UNCHANGED remoteItems
              /\ saveOp' = SaveReturns("false")
    /\ UNCHANGED <<hookVars, remoteMeta, remoteSettings>>
    /\ UNCHANGED <<fetchOp, deleteOp, opsStarted, cfgOp, fbAuth, beforeReload, otherOp, gateVars>>

\* a ledger read whose rejection makes the save return false
FBSaveMetaGet_FailureIsFatal ==
    /\ hook = "firebase" /\ saveOp.pc = "fb_meta_get"
    /\ \E ok \in BOOLEAN :
         LET currentOrder == IF remoteMeta.tag = "ok" THEN remoteMeta.val ELSE <<>>
         IN  saveOp' = IF ~ok THEN SaveReturns("false")
                       ELSE IF saveOp.item.id \notin Range(currentOrder)
                       THEN [saveOp EXCEPT !.pc = "fb_meta_set",
                                           !.order = currentOrder]
                       ELSE SaveReturns("true")
    /\ UNCHANGED <<hookVars, storeVars>>
    /\ UNCHANGED <<fetchOp, deleteOp, opsStarted, cfgOp, fbAuth, beforeReload, otherOp, gateVars>>

\* a ledger update that prepends the id whether or not the ledger lists it
FBSaveMetaGet_AlwaysPrepends ==
    /\ hook = "firebase" /\ saveOp.pc = "fb_meta_get"
    /\ \E ok \in BOOLEAN :
         LET currentOrder == IF remoteMeta.tag = "ok" THEN remoteMeta.val ELSE <<>>
         IN  saveOp' = IF ok
                       THEN [saveOp EXCEPT !.pc = "fb_meta_set",
                                           !.order = currentOrder]
                       ELSE SaveReturns("true")
    /\ UNCHANGED <<hookVars, storeVars>>
    /\ UNCHANGED <<fetchOp, deleteOp, opsStarted, cfgOp, fbAuth, beforeReload, otherOp, gateVars>>

\* getDoc(config/meta) answers; a failure is caught and the save still
\* returns true
FBSaveMetaGet ==
    /\ hook = "firebase" /\ saveOp.pc = "fb_meta_get"
    /\ \E ok \in BOOLEAN :
         LET currentOrder == IF remoteMeta.tag = "ok" THEN remoteMeta.val ELSE <<>>
         IN  saveOp' = IF ok /\ saveOp.item.id \notin Range(currentOrder)
                       THEN [saveOp EXCEPT !.pc = "fb_meta_set",
                                           !.order = currentOrder]
                       ELSE SaveReturns("true")
    /\ UNCHANGED <<hookVars, storeVars>>
    /\ UNCHANGED <<fetchOp, deleteOp, opsStarted, cfgOp, fbAuth, beforeReload, otherOp, gateVars>>

\* setDoc(config/meta, {contentOrder: [id, ...currentOrder]}) answers
FBSaveMetaSet ==
    /\ hook = "firebase" /\ saveOp.pc = "fb_meta_set"
    /\ \E ok \in BOOLEAN :
         remoteMeta' = IF ok THEN Holding(<<saveOp.item.id>> \o saveOp.order)
                       ELSE remoteMeta
    /\ saveOp' = SaveReturns("true")
    /\ UNCHANGED <<hookVars, remoteItems, remoteSettings>>
    /\ UNCHANGED <<fetchOp, deleteOp, opsStarted, cfgOp, fbAuth, beforeReload, otherOp, gateVars>>

\* getFileContent(path) answers (null on any failure)
GHSaveGet ==
    /\ hook = "github" /\ saveOp.pc = "gh_get"
    /\ \E ok \in BOOLEAN :
         LET path == generateFilename(saveOp.item)
             existing == IF ok THEN FileAt(remoteItems, path) ELSE Absent
         IN  saveOp' = [saveOp EXCEPT !.pc = "gh_put", !.sha = existing]
    /\ UNCHANGED <<hookVars, storeVars>>
    /\ UNCHANGED <<fetchOp, deleteOp, opsStarted, cfgOp, fbAuth, beforeReload, otherOp, gateVars>>

\* saveFileToGitHub(path, item, existing?.sha) answers
GHSavePut ==
    /\ hook = "github" /\ saveOp.pc = "gh_put"
    /\ LET path == generateFilename(saveOp.item) IN
       \E success \in PutOutcomes(FileAt(remoteItems, path), saveOp.sha) :
         IF success
         THEN /\ remoteItems' = PutRecord(remoteItems, path, saveOp.item)
              /\ saveOp' = [saveOp EXCEPT !.pc = "gh_meta_get"]
         ELSE /\ UNCHANGED remoteItems
              /\ saveOp' = SaveReturns("false")
    /\ UNCHANGED <<hookVars, remoteMeta, remoteSettings>>
    /\ UNCHANGED <<fetchOp, deleteOp, opsStarted, cfgOp, fbAuth, beforeReload, otherOp, gateVars>>

\* getFileContent(meta.json) answers
GHSaveMetaGet ==
    /\ hook = "github" /\ saveOp.pc = "gh_meta_get"
    /\ \E ok \in BOOLEAN :
         LET metaData == IF ok THEN remoteMeta ELSE Absent
             currentOrder == IF metaData.tag = "ok" THEN metaData.val ELSE <<>>
         IN  saveOp' = IF saveOp.item.id \notin Range(currentOrder)
                       THEN [saveOp EXCEPT !.pc = "gh_meta_put",
                                           !.order = currentOrder,
                                           !.metaSha = metaData]
                       ELSE SaveReturns("true")
    /\ UNCHANGED <<hookVars, storeVars>>
    /\ UNCHANGED <<fetchOp, deleteOp, opsStarted, cfgOp, fbAuth, beforeReload, otherOp, gateVars>>

\* saveFileToGitHub(meta.json, {contentOrder: newOrder}, metaData?.sha)
\* answers; its result is not looked at
GHSaveMetaPut ==
    /\ hook = "github" /\ saveOp.pc = "gh_meta_put"
    /\ \E success \in PutOutcomes(remoteMeta, saveOp.metaSha) :
         remoteMeta' = IF success
                       THEN Holding(<<saveOp.item.id>>
                                        \o WithoutId(saveOp.order, saveOp.item.id))
                       ELSE remoteMeta
    /\ saveOp' = SaveReturns("true")
    /\ UNCHANGED <<hookVars, remoteItems, remoteSettings>>
    /\ UNCHANGED <<fetchOp, deleteOp, opsStarted, cfgOp, fbAuth, beforeReload, otherOp, gateVars>>

(***************************************************************************)
(* deleteItem (both hooks)                                                 *)
(*                                                                         *)
(* deleteOp is the call in flight: id its argument, path and sha the file  *)
(* found to carry id, order and metaSha the ledger and its revision as     *)
(* read. outcome records how the last call ended: "local" (no backend),    *)
(* "not_found" (no readable file carries id), "erase_failed",              *)
(* "meta_read_failed", "no_ledger", "meta_write_failed", or "done" (the    *)
(* ledger was written).                                                    *)
(***************************************************************************)
DeleteIdle(ret, id, order, outcome) ==
    [pc |-> "idle", ret |-> ret, id |-> id, path |-> "", sha |-> Absent,
     order |-> order, metaSha |-> Absent, outcome |-> outcome]

DeleteRunning == deleteOp.pc # "idle"

\* deleteItem(id) is called: the in-memory update (and, in the GitHub hook,
\* the cache write inside it), up to the first await
DeleteStart(id) ==
    /\ ~DeleteRunning /\ fetchOp.pc # "init"
    /\ opsStarted < MaxOps
    /\ opsStarted' = opsStarted + 1
    /\ items' = DeleteLocal(items, id)
    /\ cacheContent' = (IF hook = "github" THEN Holding(items') ELSE cacheContent)
    /\ deleteOp' = IF configured
                   THEN [DeleteIdle("none", id, <<>>, "none") EXCEPT
                            !.pc = IF hook = "firebase" THEN "fb_del" ELSE "gh_find"]
                   ELSE DeleteIdle("true", id, <<>>, "local")
    /\ UNCHANGED <<hook, configured, settings, isLoading, error, cacheSettings>>
    /\ UNCHANGED <<storeVars, fetchOp, saveOp, cfgOp, fbAuth, beforeReload, otherOp, gateVars>>

\* deleteDoc(content/<id>) answers
FBDelErase ==
    /\ hook = "firebase" /\ deleteOp.pc = "fb_del"
    /\ \E ok \in BOOLEAN :
         IF ok
         THEN /\ remoteItems' = EraseRecord(remoteItems, deleteOp.id)
              /\ deleteOp' = [deleteOp EXCEPT !.pc = "fb_meta_get"]
         ELSE /\ UNCHANGED remoteItems
              /\ deleteOp' = DeleteIdle("false", deleteOp.id, <<>>, "erase_failed")
    /\ UNCHANGED <<hookVars, remoteMeta, remoteSettings>>
    /\ UNCHANGED <<fetchOp, saveOp, opsStarted, cfgOp, fbAuth, beforeReload, otherOp, gateVars>>

\* getDoc(config/meta) answers
FBDelMetaGet ==
    /\ hook = "firebase" /\ deleteOp.pc = "fb_meta_get"
    /\ \E ok \in BOOLEAN :
         deleteOp' =
             IF ~ok THEN DeleteIdle("false", deleteOp.id, <<>>, "meta_read_failed")
             ELSE IF remoteMeta.tag = "ok"
             THEN [deleteOp EXCEPT !.pc = "fb_meta_set", !.order = remoteMeta.val]
             ELSE DeleteIdle("true", deleteOp.id, <<>>, "no_ledger")
    /\ UNCHANGED <<hookVars, storeVars>>
    /\ UNCHANGED <<fetchOp, saveOp, opsStarted, cfgOp, fbAuth, beforeReload, otherOp, gateVars>>

\* setDoc(config/meta, {contentOrder: newOrder}) answers
FBDelMetaSet ==
    /\ hook = "firebase" /\ deleteOp.pc = "fb_meta_set"
    /\ \E ok \in BOOLEAN :
         IF ok
         THEN /\ remoteMeta' = Holding(WithoutId(deleteOp.order, deleteOp.id))
              /\ deleteOp' = DeleteIdle("true", deleteOp.id, deleteOp.order, "done")
         ELSE /\ UNCHANGED remoteMeta
              /\ deleteOp' = DeleteIdle("false", deleteOp.id, deleteOp.order,
                                        "meta_write_failed")
    /\ UNCHANGED <<hookVars, remoteItems, remoteSettings>>
    /\ UNCHANGED <<fetchOp, saveOp, opsStarted, cfgOp, fbAuth, beforeReload, otherOp, gateVars>>

\* listFiles and the getFileContent of each content file, in listing order,
\* up to the first file whose content carries id; the files in readable are
\* those that were listed and read
GHDelFind ==
    /\ hook = "github" /\ deleteOp.pc = "gh_find"
    /\ \E readable \in SUBSET (DOMAIN remoteItems) :
         LET hits == SelectSeq(KeyOrder,
                               LAMBDA k : k \in readable
                                          /\ remoteItems[k].id = deleteOp.id)
         IN  deleteOp' =
                 IF Len(hits) > 0
                 THEN [deleteOp EXCEPT !.pc = "gh_del", !.path = hits[1],
                                       !.sha = Holding(remoteItems[hits[1]])]
                 ELSE DeleteIdle("true", deleteOp.id, <<>>, "not_found")
    /\ UNCHANGED <<hookVars, storeVars>>
    /\ UNCHANGED <<fetchOp, saveOp, opsStarted, cfgOp, fbAuth, beforeReload, otherOp, gateVars>>

\* deleteFileFromGitHub(file.path, data.sha) answers
GHDelErase ==
    /\ hook = "github" /\ deleteOp.pc = "gh_del"
    /\ \E success \in DeleteOutcomes(FileAt(remoteItems, deleteOp.path), deleteOp.sha) :
         IF success
         THEN /\ remoteItems' = EraseRecord(remoteItems, deleteOp.path)
              /\ deleteOp' = [deleteOp EXCEPT !.pc = "gh_meta_get"]
         ELSE /\ UNCHANGED remoteItems
              /\ deleteOp' = DeleteIdle("false", deleteOp.id, <<>>, "erase_failed")
    /\ UNCHANGED <<hookVars, remoteMeta, remoteSettings>>
    /\ UNCHANGED <<fetchOp, saveOp, opsStarted, cfgOp, fbAuth, beforeReload, otherOp, gateVars>>

\* getFileContent(meta.json) answers (null on any failure)
GHDelMetaGet ==
    /\ hook = "github" /\ deleteOp.pc = "gh_meta_get"
    /\ \E ok \in BOOLEAN :
         deleteOp' =
             IF ~ok THEN DeleteIdle("true", deleteOp.id, <<>>, "meta_read_failed")
             ELSE IF remoteMeta.tag = "ok"
             THEN [deleteOp EXCEPT !.pc = "gh_meta_put", !.order = remoteMeta.val,
                                   !.metaSha = remoteMeta]
             ELSE DeleteIdle("true", deleteOp.id, <<>>, "no_ledger")
    /\ UNCHANGED <<hookVars, storeVars>>
    /\ UNCHANGED <<fetchOp, saveOp, opsStarted, cfgOp, fbAuth, beforeReload, otherOp, gateVars>>

\* saveFileToGitHub(meta.json, {contentOrder: newOrder}, metaData.sha)
\* answers; its result is not looked at
GHDelMetaPut ==
    /\ hook = "github" /\ deleteOp.pc = "gh_meta_put"
    /\ \E success \in PutOutcomes(remoteMeta, deleteOp.metaSha) :
         IF success
         THEN /\ remoteMeta' = Holding(WithoutId(deleteOp.order, deleteOp.id))
              /\ deleteOp' = DeleteIdle("true", deleteOp.id, deleteOp.order, "done")
         ELSE /\ UNCHANGED remoteMeta
              /\ deleteOp' = DeleteIdle("true", deleteOp.id, deleteOp.order,
                                        "meta_write_failed")
    /\ UNCHANGED <<hookVars, remoteItems, remoteSettings>>
    /\ UNCHANGED <<fetchOp, saveOp, opsStarted, cfgOp, fbAuth, beforeReload, otherOp, gateVars>>

(***************************************************************************)
(* saveSettings and saveMeta (both hooks)                                  *)
(*                                                                         *)
(* cfgOp is the call in flight: kind names the operation, arg is its       *)
(* argument (the new settings, or the contentOrder of the new meta), sha   *)
(* the revision read for the file, ret what the last call returned.        *)
(***************************************************************************)
CfgIdle(ret, kind, arg) ==
    [pc |-> "idle", ret |-> ret, kind |-> kind, arg |-> arg, sha |-> Absent]

CfgRunning == cfgOp.pc # "idle"

\* the settings the editor hands to saveSettings
SettingsPool == {"edited"}
\* the orders handed to saveMeta
MetaPool == {<<"1", "2">>}

\* saveSettings(newSettings) is called: setSettings (and, in the GitHub
\* hook, the cache write), up to the first await
SaveSettingsStart(newSettings) ==
    /\ ~CfgRunning /\ fetchOp.pc # "init"
    /\ opsStarted < MaxOps
    /\ opsStarted' = opsStarted + 1
    /\ settings' = newSettings
    /\ cacheSettings' = (IF hook = "github" THEN Holding(newSettings)
                         ELSE cacheSettings)
    /\ cfgOp' = IF configured
                THEN [CfgIdle("none", "settings", newSettings) EXCEPT
                         !.pc = IF hook = "firebase" THEN "fb_set" ELSE "gh_get"]
                ELSE CfgIdle("true", "settings", newSettings)
    /\ UNCHANGED <<hook, configured, items, isLoading, error, cacheContent>>
    /\ UNCHANGED <<storeVars, fetchOp, saveOp, deleteOp, fbAuth, beforeReload, otherOp, gateVars>>

\* a saveMeta that goes to the backend whether one is configured or not
SaveMetaStart_IgnoresConfig(order) ==
    /\ ~CfgRunning /\ fetchOp.pc # "init"
    /\ opsStarted < MaxOps
    /\ opsStarted' = opsStarted + 1
    /\ cfgOp' = [CfgIdle("none", "meta", order) EXCEPT
                    !.pc = IF hook = "firebase" THEN "fb_set" ELSE "gh_get"]
    /\ UNCHANGED <<hookVars, storeVars>>
    /\ UNCHANGED <<fetchOp, saveOp, deleteOp, fbAuth, beforeReload, otherOp, gateVars>>

\* saveMeta(meta) is called: up to the first await
SaveMetaStart(order) ==
    /\ ~CfgRunning /\ fetchOp.pc # "init"
    /\ opsStarted < MaxOps
    /\ opsStarted' = opsStarted + 1
    /\ cfgOp' = IF configured
                THEN [CfgIdle("none", "meta", order) EXCEPT
                         !.pc = IF hook = "firebase" THEN "fb_set" ELSE "gh_get"]
                ELSE CfgIdle("true", "meta", order)
    /\ UNCHANGED <<hookVars, storeVars>>
    /\ UNCHANGED <<fetchOp, saveOp, deleteOp, fbAuth, beforeReload, otherOp, gateVars>>

\* the remote settings or ledger, whichever the call in flight is about
CfgTarget == IF cfgOp.kind = "settings" THEN remoteSettings ELSE remoteMeta

\* the backend after the call's write is accepted
CfgWritten ==
    /\ remoteSettings' = (IF cfgOp.kind = "settings" THEN Holding(cfgOp.arg)
                          ELSE remoteSettings)
    /\ remoteMeta' = (IF cfgOp.kind = "meta" THEN Holding(cfgOp.arg)
                      ELSE remoteMeta)
    /\ UNCHANGED remoteItems

\* setDoc(config/settings, newSettings) or setDoc(config/meta, meta) answers
FBCfgSet ==
    /\ hook = "firebase" /\ cfgOp.pc = "fb_set"
    /\ \E ok \in BOOLEAN :
         IF ok
         THEN /\ CfgWritten
              /\ cfgOp' = CfgIdle("true", cfgOp.kind, cfgOp.arg)
         ELSE /\ UNCHANGED storeVars
              /\ cfgOp' = CfgIdle("false", cfgOp.kind, cfgOp.arg)
    /\ UNCHANGED hookVars
    /\ UNCHANGED <<fetchOp, saveOp, deleteOp, opsStarted, fbAuth, beforeReload, otherOp, gateVars>>

\* getFileContent(settings.json or meta.json) answers (null on any failure)
GHCfgGet ==
    /\ hook = "github" /\ cfgOp.pc = "gh_get"
    /\ \E ok \in BOOLEAN :
         cfgOp' = [cfgOp EXCEPT !.pc = "gh_put",
                                !.sha = IF ok THEN CfgTarget ELSE Absent]
    /\ UNCHANGED <<hookVars, storeVars>>
    /\ UNCHANGED <<fetchOp, saveOp, deleteOp, opsStarted, fbAuth, beforeReload, otherOp, gateVars>>

\* saveFileToGitHub(path, content, existing?.sha) answers; its result is the
\* call's result
GHCfgPut ==
    /\ hook = "github" /\ cfgOp.pc = "gh_put"
    /\ \E success \in PutOutcomes(CfgTarget, cfgOp.sha) :
         IF success
         THEN /\ CfgWritten
              /\ cfgOp' = CfgIdle("true", cfgOp.kind, cfgOp.arg)
         ELSE /\ UNCHANGED storeVars
              /\ cfgOp' = CfgIdle("false", cfgOp.kind, cfgOp.arg)
    /\ UNCHANGED hookVars
    /\ UNCHANGED <<fetchOp, saveOp, deleteOp, opsStarted, fbAuth, beforeReload, otherOp, gateVars>>

(***************************************************************************)
(* saveItem and deleteItem run by another session (both hooks)             *)
(*                                                                         *)
(* otherOp is that session's call in flight: kind names the function, pc   *)
(* is the await it stands at, item or id its argument; path, sha, order    *)
(* and metaSha are what it has read, as in saveOp and deleteOp. That       *)
(* session's in-memory list is its own and is not part of the state.       *)
(***************************************************************************)
OtherIdle ==
    [kind |-> "none", pc |-> "idle", ret |-> "none", item |-> NoItem,
     id |-> "", path |-> "", sha |-> Absent, order |-> <<>>,
     metaSha |-> Absent]

OtherRunning == otherOp.pc # "idle"

\* the other session's call returns ret
OtherReturns(ret) == [otherOp EXCEPT !.pc = "idle", !.ret = ret]

\* the frame of a step of the other session
OtherOnly ==
    /\ UNCHANGED <<hookVars, remoteSettings>>
    /\ UNCHANGED <<fetchOp, saveOp, deleteOp, cfgOp, fbAuth, beforeReload, gateVars>>

\* the other session calls saveItem(item), up to its first await
OtherSaveStart(item) ==
    /\ configured /\ ~OtherRunning
    /\ opsStarted < MaxOps
    /\ opsStarted' = opsStarted + 1
    /\ otherOp' = [OtherIdle EXCEPT
                      !.kind = "save", !.item = item, !.id = item.id,
                      !.pc = IF hook = "firebase" THEN "fb_set" ELSE "gh_get"]
    /\ UNCHANGED <<remoteItems, remoteMeta>>
    /\ OtherOnly

\* the other session calls deleteItem(id), up to its first await
OtherDeleteStart(id) ==
    /\ configured /\ ~OtherRunning
    /\ opsStarted < MaxOps
    /\ opsStarted' = opsStarted + 1
    /\ otherOp' = [OtherIdle EXCEPT
                      !.kind = "delete", !.id = id,
                      !.pc = IF hook = "firebase" THEN "fb_del" ELSE "gh_find"]
    /\ UNCHANGED <<remoteItems, remoteMeta>>
    /\ OtherOnly

\* useFirebaseDB.saveItem in the other session: the await it stands at is
\* answered
OtherFBSave ==
    /\ hook = "firebase" /\ otherOp.kind = "save" /\ OtherRunning
    /\ \E ok \in BOOLEAN :
         CASE otherOp.pc = "fb_set" ->
                IF ok
                THEN /\ remoteItems' = PutRecord(remoteItems, otherOp.id, otherOp.item)
                     /\ otherOp' = [otherOp EXCEPT !.pc = "fb_meta_get"]
                     /\ UNCHANGED remoteMeta
                ELSE /\ otherOp' = OtherReturns("false")
                     /\ UNCHANGED <<remoteItems, remoteMeta>>
           [] otherOp.pc = "fb_meta_get" ->
                LET currentOrder == IF remoteMeta.tag = "ok" THEN remoteMeta.val
                                    ELSE <<>>
                IN  /\ otherOp' = IF ok /\ otherOp.id \notin Range(currentOrder)
                                  THEN [otherOp EXCEPT !.pc = "fb_meta_set",
                                                       !.order = currentOrder]
                                  ELSE OtherReturns("true")
                    /\ UNCHANGED <<remoteItems, remoteMeta>>
           [] otherOp.pc = "fb_meta_set" ->
                /\ remoteMeta' = IF ok THEN Holding(<<otherOp.id>> \o otherOp.order)
                                 ELSE remoteMeta
                /\ otherOp' = OtherReturns("true")
                /\ UNCHANGED remoteItems
    /\ UNCHANGED opsStarted
    /\ OtherOnly

\* useGitHubDB.saveItem in the other session
OtherGHSave ==
    /\ hook = "github" /\ otherOp.kind = "save" /\ OtherRunning
    /\ LET path == generateFilename(otherOp.item) IN
       CASE otherOp.pc = "gh_get" ->
              \E ok \in BOOLEAN :
                /\ otherOp' = [otherOp EXCEPT
                                  !.pc = "gh_put",
                                  !.sha = IF ok THEN FileAt(remoteItems, path)
                                          ELSE Absent]
                /\ UNCHANGED <<remoteItems, remoteMeta>>
         [] otherOp.pc = "gh_put" ->
              \E success \in PutOutcomes(FileAt(remoteItems, path), otherOp.sha) :
                IF success
                THEN /\ remoteItems' = PutRecord(remoteItems, path, otherOp.item)
                     /\ otherOp' = [otherOp EXCEPT !.pc = "gh_meta_get"]
                     /\ UNCHANGED remoteMeta
                ELSE /\ otherOp' = OtherReturns("false")
                     /\ UNCHANGED <<remoteItems, remoteMeta>>
         [] otherOp.pc = "gh_meta_get" ->
              \E ok \in BOOLEAN :
                LET metaData == IF ok THEN remoteMeta ELSE Absent
                    currentOrder == IF metaData.tag = "ok" THEN metaData.val
                                    ELSE <<>>
                IN  /\ otherOp' = IF otherOp.id \notin Range(currentOrder)
                                  THEN [otherOp EXCEPT !.pc = "gh_meta_put",
                                                       !.order = currentOrder,
                                                       !.metaSha = metaData]
                                  ELSE OtherReturns("true")
                    /\ UNCHANGED <<remoteItems, remoteMeta>>
         [] otherOp.pc = "gh_meta_put" ->
              \E success \in PutOutcomes(remoteMeta, otherOp.metaSha) :
                /\ remoteMeta' = IF success
                                 THEN Holding(<<otherOp.id>>
                                                  \o WithoutId(otherOp.order, otherOp.id))
                                 ELSE remoteMeta
                /\ otherOp' = OtherReturns("true")
                /\ UNCHANGED remoteItems
    /\ UNCHANGED opsStarted
    /\ OtherOnly

\* useFirebaseDB.deleteItem in the other session
OtherFBDelete ==
    /\ hook = "firebase" /\ otherOp.kind = "delete" /\ OtherRunning
    /\ \E ok \in BOOLEAN :
         CASE otherOp.pc = "fb_del" ->
                IF ok
                THEN /\ remoteItems' = EraseRecord(remoteItems, otherOp.id)
                     /\ otherOp' = [otherOp EXCEPT !.pc = "fb_meta_get"]
                     /\ UNCHANGED remoteMeta
                ELSE /\ otherOp' = OtherReturns("false")
                     /\ UNCHANGED <<remoteItems, remoteMeta>>
           [] otherOp.pc = "fb_meta_get" ->
                /\ otherOp' = IF ~ok THEN OtherReturns("false")
                              ELSE IF remoteMeta.tag = "ok"
                              THEN [otherOp EXCEPT !.pc = "fb_meta_set",
                                                   !.order = remoteMeta.val]
                              ELSE OtherReturns("true")
                /\ UNCHANGED <<remoteItems, remoteMeta>>
           [] otherOp.pc = "fb_meta_set" ->
                /\ remoteMeta' = IF ok
                                 THEN Holding(WithoutId(otherOp.order, otherOp.id))
                                 ELSE remoteMeta
                /\ otherOp' = OtherReturns(IF ok THEN "true" ELSE "false")
                /\ UNCHANGED remoteItems
    /\ UNCHANGED opsStarted
    /\ OtherOnly

\* useGitHubDB.deleteItem in the other session
OtherGHDelete ==
    /\ hook = "github" /\ otherOp.kind = "delete" /\ OtherRunning
    /\ CASE otherOp.pc = "gh_find" ->
              \E readable \in SUBSET (DOMAIN remoteItems) :
                LET hits == SelectSeq(KeyOrder,
                                      LAMBDA k : k \in readable
                                                 /\ remoteItems[k].id = otherOp.id)
                IN  /\ otherOp' = IF Len(hits) > 0
                                  THEN [otherOp EXCEPT
                                           !.pc = "gh_del", !.path = hits[1],
                                           !.sha = Holding(remoteItems[hits[1]])]
                                  ELSE OtherReturns("true")
                    /\ UNCHANGED <<remoteItems, remoteMeta>>
         [] otherOp.pc = "gh_del" ->
              \E success \in DeleteOutcomes(FileAt(remoteItems, otherOp.path),
                                            otherOp.sha) :
                IF success
                THEN /\ remoteItems' = EraseRecord(remoteItems, otherOp.path)
                     /\ otherOp' = [otherOp EXCEPT !.pc = "gh_meta_get"]
                     /\ UNCHANGED remoteMeta
                ELSE /\ otherOp' = OtherReturns("false")
                     /\ UNCHANGED <<remoteItems, remoteMeta>>
         [] otherOp.pc = "gh_meta_get" ->
              \E ok \in BOOLEAN :
                /\ otherOp' = IF ok /\ remoteMeta.tag = "ok"
                              THEN [otherOp EXCEPT !.pc = "gh_meta_put",
                                                   !.order = remoteMeta.val,
                                                   !.metaSha = remoteMeta]
                              ELSE OtherReturns("true")
                /\ UNCHANGED <<remoteItems, remoteMeta>>
         [] otherOp.pc = "gh_meta_put" ->
              \E success \in PutOutcomes(remoteMeta, otherOp.metaSha) :
                /\ remoteMeta' = IF success
                                 THEN Holding(WithoutId(otherOp.order, otherOp.id))
                                 ELSE remoteMeta
                /\ otherOp' = OtherReturns("true")
                /\ UNCHANGED remoteItems
    /\ UNCHANGED opsStarted
    /\ OtherOnly

(***************************************************************************)
(* SpecFetch: fetchContent alone, over every initial backend and cache     *)
(***************************************************************************)
\* the ordering ledgers a backend may hold: no id twice (saveItem adds an id
\* only if it is not listed, deleteItem only removes)
RECURSIVE LedgersOfLen(_)
LedgersOfLen(n) ==
    IF n = 0 THEN { <<>> }
    ELSE { Append(l, i) : l \in { m \in LedgersOfLen(n - 1) : TRUE },
                          i \in Ids } 

Ledgers ==
    { l \in UNION { LedgersOfLen(n) : n \in 0..MaxLedger } :
        \A j, k \in 1..Len(l) : j # k => l[j] # l[k] }

\* the content a backend may hold. Firestore: one document per id. GitHub: one
\* file per name, and two files may carry the same id.
RemoteContents(h) ==
    IF h = "firebase"
    THEN { [k \in S |-> CHOOSE r \in {R1, R2, R3} : r.id = k] : S \in SUBSET Ids }
    ELSE { [k \in { generateFilename(r) : r \in S } |->
              CHOOSE r \in S : generateFilename(r) = k] :
           S \in SUBSET {R1, R2, R2b, R3} }

CachedContents == { Absent, Corrupt, Holding(<<Item("3", POEM, "Roots", "cached-3")>>) }
CachedSettings == { Absent, Corrupt, Holding("cached") }

\* the mount effect has got as far as calling fetchContent
AuthSettled ==
    fbAuth = IF hook = "firebase" /\ configured THEN "user" ELSE "unused"

GateUnused ==
    /\ isAuthenticated = FALSE /\ sessionFlag = "null" /\ authMounted = FALSE
    /\ loginRet = "none"
    /\ attempts = 0 /\ isLocked = FALSE /\ lockoutTimer = 0
    /\ effectPending = FALSE /\ intervalOn = FALSE
    /\ currentView = "HOME" /\ menuOpen = FALSE /\ selectedItem = FALSE
    /\ navTimers = {} /\ appLoading = TRUE
    /\ lastOp = "init" /\ failStreak = 0

\* no page reload yet
NotReloaded == [reloaded |-> FALSE, items |-> <<>>, settings |-> DEFAULT_SETTINGS]

\* the hook after construction: useState's initial values, nothing in flight
HookConstructed ==
    /\ items = <<>> /\ settings = DEFAULT_SETTINGS
    /\ isLoading = TRUE /\ error = FALSE
    /\ fetchOp = [FetchFresh EXCEPT !.pc = "init"]
    /\ saveOp = SaveIdle("none", NoItem)
    /\ deleteOp = DeleteIdle("none", "", <<>>, "none")
    /\ cfgOp = CfgIdle("none", "none", <<>>)
    /\ opsStarted = 0
    /\ beforeReload = NotReloaded
    /\ otherOp = OtherIdle

InitFetch ==
    /\ GateUnused
    /\ HookConstructed
    /\ hook \in {"firebase", "github"}
    /\ configured \in BOOLEAN
    /\ cacheContent \in CachedContents
    /\ cacheSettings \in CachedSettings
    /\ IF configured
       THEN /\ remoteItems \in RemoteContents(hook)
            /\ remoteMeta \in {Absent} \cup { Holding(l) : l \in Ledgers }
            /\ remoteSettings \in {Absent, Holding("remote")}
       ELSE /\ remoteItems = <<>>
            /\ remoteMeta = Absent
            /\ remoteSettings = Absent
    /\ AuthSettled

NextFetch ==
    \/ FetchStart
    \/ FBSettings
    \/ FBContent
    \/ FBMeta
    \/ FBStatic
    \/ GHSettings
    \/ GHMeta
    \/ GHFiles
    \/ GHStatic

SpecFetch == InitFetch /\ [][NextFetch]_vars

\* every backend, cache and static-file request is answered in the end
FairFetch ==
    /\ SpecFetch
    /\ WF_vars(FBSettings) /\ WF_vars(FBContent) /\ WF_vars(FBMeta)
    /\ WF_vars(FBStatic)
    /\ WF_vars(GHSettings) /\ WF_vars(GHMeta) /\ WF_vars(GHFiles)
    /\ WF_vars(GHStatic)

(***************************************************************************)
(* SpecDB: one hook with fetchContent, saveItem and deleteItem in flight   *)
(***************************************************************************)
InitDB ==
    /\ GateUnused
    /\ HookConstructed
    /\ hook \in {"firebase", "github"}
    /\ configured \in BOOLEAN
    /\ cacheContent = Absent
    /\ cacheSettings = Absent
    /\ remoteSettings = Absent
    /\ IF configured
       THEN /\ remoteItems \in
                 { <<>>,
                   [k \in {RecordKey(hook, R1), RecordKey(hook, R2)} |->
                       IF k = RecordKey(hook, R1) THEN R1 ELSE R2] }
            /\ remoteMeta \in {Absent, Holding(<<"2", "1">>)}
       ELSE /\ remoteItems = <<>>
            /\ remoteMeta = Absent
    /\ AuthSettled

NextDB ==
    \/ FetchStart
    \/ FBSettings
    \/ FBContent
    \/ FBMeta
    \/ FBStatic
    \/ GHSettings
    \/ GHMeta
    \/ GHFiles
    \/ GHStatic
    \/ \E item \in ItemPool : SaveStart(item)
    \/ FBSaveSet
    \/ FBSaveMetaGet
    \/ FBSaveMetaSet
    \/ GHSaveGet
    \/ GHSavePut
    \/ GHSaveMetaGet
    \/ GHSaveMetaPut
    \/ \E id \in Ids : DeleteStart(id)
    \/ FBDelErase
    \/ FBDelMetaGet
    \/ FBDelMetaSet
    \/ GHDelFind
    \/ GHDelErase
    \/ GHDelMetaGet
    \/ GHDelMetaPut

SpecDB == InitDB /\ [][NextDB]_vars

(***************************************************************************)
(* SpecHook: one hook with every operation it exports in flight            *)
(***************************************************************************)
InitHook == InitDB

NextHook ==
    \/ NextDB
    \/ \E newSettings \in SettingsPool : SaveSettingsStart(newSettings)
    \/ \E order \in MetaPool : SaveMetaStart(order)
    \/ FBCfgSet
    \/ GHCfgGet
    \/ GHCfgPut

SpecHook == InitHook /\ [][NextHook]_vars

(***************************************************************************)
(* SpecLocal: a hook with no backend configured, over page reloads         *)
(***************************************************************************)
\* the page is reloaded once the content is on screen: the hook is
\* constructed again (useState's initial values), the browser cache stays
ReloadPage ==
    /\ fetchOp.pc = "idle" /\ fetchOp.n < MaxFetches
    /\ ~SaveRunning /\ ~DeleteRunning /\ ~CfgRunning
    /\ beforeReload' = [reloaded |-> TRUE, items |-> items, settings |-> settings]
    /\ items' = <<>> /\ settings' = DEFAULT_SETTINGS
    /\ isLoading' = TRUE /\ error' = FALSE
    /\ fetchOp' = [FetchFresh EXCEPT !.pc = "init", !.n = fetchOp.n]
    /\ saveOp' = SaveIdle("none", NoItem)
    /\ deleteOp' = DeleteIdle("none", "", <<>>, "none")
    /\ cfgOp' = CfgIdle("none", "none", <<>>)
    /\ UNCHANGED <<hook, configured, cacheContent, cacheSettings>>
    /\ UNCHANGED <<storeVars, opsStarted, fbAuth, otherOp, gateVars>>

InitLocal ==
    /\ GateUnused
    /\ HookConstructed
    /\ hook \in {"firebase", "github"}
    /\ configured = FALSE
    /\ cacheContent = Absent
    /\ cacheSettings = Absent
    /\ remoteItems = <<>> /\ remoteMeta = Absent /\ remoteSettings = Absent
    /\ AuthSettled

\* App shows the loading view, and no editor, while the hook is loading
EditorOpen == ~isLoading

EditorSave == EditorOpen /\ \E item \in ItemPool : SaveStart(item)
EditorDelete == EditorOpen /\ \E id \in Ids : DeleteStart(id)
EditorSettings ==
    EditorOpen /\ \E newSettings \in SettingsPool : SaveSettingsStart(newSettings)
EditorMeta == EditorOpen /\ \E order \in MetaPool : SaveMetaStart(order)

NextLocal ==
    \/ FetchStart
    \/ FBStatic
    \/ GHStatic
    \/ EditorSave
    \/ EditorDelete
    \/ EditorSettings
    \/ EditorMeta
    \/ ReloadPage

SpecLocal == InitLocal /\ [][NextLocal]_vars

(***************************************************************************)
(* SpecTwo: useGitHubDB with a backend, and a second session committing to *)
(* the same repository                                                     *)
(***************************************************************************)
\* what the other session commits: another text for item 1, and an item
\* whose file takes the path of the editor's new item 3
OtherItems ==
    { Item("1", QUOTE, "", "other-1"), Item("3", STORY, "Old Clock", "other-3") }
OtherSettings == "other"

\* the other session commits an item file or settings.json
OtherSessionCommit ==
    /\ opsStarted < MaxOps
    /\ opsStarted' = opsStarted + 1
    /\ \/ /\ \E it \in OtherItems :
               remoteItems' = PutRecord(remoteItems, generateFilename(it), it)
          /\ UNCHANGED <<remoteMeta, remoteSettings>>
       \/ /\ remoteSettings' = Holding(OtherSettings)
          /\ UNCHANGED <<remoteItems, remoteMeta>>
    /\ storeVars' # storeVars
    /\ UNCHANGED hookVars
    /\ UNCHANGED <<fetchOp, saveOp, deleteOp, cfgOp, fbAuth, beforeReload, otherOp, gateVars>>

InitTwo ==
    /\ GateUnused
    /\ HookConstructed
    /\ hook = "github"
    /\ configured = TRUE
    /\ cacheContent = Absent
    /\ cacheSettings = Absent
    /\ remoteItems \in
         { <<>>,
           [k \in {generateFilename(R1), generateFilename(R2)} |->
               IF k = generateFilename(R1) THEN R1 ELSE R2] }
    /\ remoteMeta \in {Absent, Holding(<<"2", "1">>)}
    /\ remoteSettings \in {Absent, Holding("remote")}
    /\ AuthSettled

NextTwo ==
    \/ FetchStart
    \/ GHSettings
    \/ GHMeta
    \/ GHFiles
    \/ GHStatic
    \/ \E item \in ItemPool : SaveStart(item)
    \/ GHSaveGet
    \/ GHSavePut
    \/ GHSaveMetaGet
    \/ GHSaveMetaPut
    \/ \E newSettings \in SettingsPool : SaveSettingsStart(newSettings)
    \/ GHCfgGet
    \/ GHCfgPut
    \/ OtherSessionCommit

SpecTwo == InitTwo /\ [][NextTwo]_vars

(***************************************************************************)
(* SpecPair: one hook with a backend, and a second session running         *)
(* saveItem and deleteItem against the same backend                        *)
(***************************************************************************)
\* what the other session saves: a new item 1, and the item 3 this session
\* may save as well
OtherPool ==
    { Item("1", QUOTE, "", "other-1"), Item("3", STORY, "Old Clock", "other-3") }

InitPair ==
    /\ GateUnused
    /\ HookConstructed
    /\ hook \in {"firebase", "github"}
    /\ configured = TRUE
    /\ cacheContent = Absent
    /\ cacheSettings = Absent
    /\ remoteSettings = Absent
    /\ \/ remoteItems = <<>> /\ remoteMeta \in {Absent, Holding(<<>>)}
       \/ /\ remoteItems = [k \in {RecordKey(hook, R2)} |-> R2]
          /\ remoteMeta = Holding(<<"2">>)
    /\ AuthSettled

NextPair ==
    \/ FetchStart
    \/ FBSettings
    \/ FBContent
    \/ FBMeta
    \/ FBStatic
    \/ GHSettings
    \/ GHMeta
    \/ GHFiles
    \/ GHStatic
    \/ \E item \in ItemPool : SaveStart(item)
    \/ FBSaveSet
    \/ FBSaveMetaGet
    \/ FBSaveMetaSet
    \/ GHSaveGet
    \/ GHSavePut
    \/ GHSaveMetaGet
    \/ GHSaveMetaPut
    \/ \E id \in Ids : DeleteStart(id)
    \/ FBDelErase
    \/ FBDelMetaGet
    \/ FBDelMetaSet
    \/ GHDelFind
    \/ GHDelErase
    \/ GHDelMetaGet
    \/ GHDelMetaPut
    \/ \E item \in OtherPool : OtherSaveStart(item)
    \/ \E id \in Ids : OtherDeleteStart(id)
    \/ OtherFBSave
    \/ OtherGHSave
    \/ OtherFBDelete
    \/ OtherGHDelete

SpecPair == InitPair /\ [][NextPair]_vars

(***************************************************************************)
(* SpecMount: useFirebaseDB from its mount effect on                       *)
(*                                                                         *)
(* fbAuth: "unknown" (the listener is registered and has not fired),       *)
(* "user" (it fired with a user), "signing_in" (it fired with none and     *)
(* signInAnonymously is pending), "signed_in" (the sign-in resolved and    *)
(* the listener has not yet fired again), "signin_failed"; "unused" when   *)
(* Firebase is not configured.                                             *)
(***************************************************************************)
\* no Firebase: the effect's setTimeout(0) fires and calls fetchContent
MountTimerFires ==
    /\ hook = "firebase" /\ ~configured
    /\ fetchOp.pc = "init"
    /\ FetchCall
    /\ UNCHANGED fbAuth

\* the frame of a step of the mount effect that does not call fetchContent
MountOnly ==
    /\ UNCHANGED <<hookVars, storeVars>>
    /\ UNCHANGED <<fetchOp, saveOp, deleteOp, opsStarted, cfgOp, beforeReload, otherOp, gateVars>>

\* an onAuthStateChanged callback that calls fetchContent whether or not
\* there is a user
AuthListenerFires_FetchesAtOnce(user) ==
    /\ hook = "firebase" /\ configured
    /\ fbAuth \in {"unknown", "signed_in"}
    /\ fbAuth = "signed_in" => user
    /\ fbAuth' = (IF user THEN "user" ELSE "signing_in")
    /\ FetchCall

\* the onAuthStateChanged callback runs: with a user it calls fetchContent,
\* with none it calls signInAnonymously
AuthListenerFires(user) ==
    /\ hook = "firebase" /\ configured
    /\ fbAuth \in {"unknown", "signed_in"}
    /\ fbAuth = "signed_in" => user
    /\ IF user
       THEN /\ fbAuth' = "user"
            /\ FetchCall
       ELSE /\ fbAuth' = "signing_in"
            /\ MountOnly

\* signInAnonymously settles: its rejection is caught and fetchContent is
\* called anyway
SignInSettles(ok) ==
    /\ hook = "firebase" /\ configured
    /\ fbAuth = "signing_in"
    /\ IF ok
       THEN /\ fbAuth' = "signed_in"
            /\ MountOnly
       ELSE /\ fbAuth' = "signin_failed"
            /\ FetchCall

InitMount ==
    /\ GateUnused
    /\ HookConstructed
    /\ hook = "firebase"
    /\ configured \in BOOLEAN
    /\ cacheContent \in CachedContents
    /\ cacheSettings = Absent
    /\ IF configured
       THEN /\ remoteItems \in RemoteContents(hook)
            /\ remoteMeta \in {Absent, Holding(<<"2", "1">>)}
            /\ remoteSettings \in {Absent, Holding("remote")}
            /\ fbAuth = "unknown"
       ELSE /\ remoteItems = <<>>
            /\ remoteMeta = Absent
            /\ remoteSettings = Absent
            /\ fbAuth = "unused"

NextMount ==
    \/ MountTimerFires
    \/ \E user \in BOOLEAN : AuthListenerFires(user)
    \/ \E ok \in BOOLEAN : SignInSettles(ok)
    \/ FBSettings
    \/ FBContent
    \/ FBMeta
    \/ FBStatic

SpecMount == InitMount /\ [][NextMount]_vars

(***************************************************************************)
(* Claims about fetchContent (SpecFetch)                                   *)
(***************************************************************************)
\* the items of loaded that the ledger lists, in ledger order
RECURSIVE LedgerPart(_, _)
LedgerPart(loaded, order) ==
    IF order = <<>> THEN <<>>
    ELSE SelectSeq(loaded, LAMBDA i : i.id = Head(order))
             \o LedgerPart(loaded, Tail(order))

\* ledger order first, then the unlisted items in arrival order
ExpectedOrder(loaded, order) ==
    LedgerPart(loaded, order)
        \o SelectSeq(loaded, LAMBDA i : i.id \notin Range(order))

\* a call of fetchContent returns in this step
FetchCompletes == FetchRunning /\ fetchOp'.pc = "idle"

\* C1: the list fetchContent stores after a backend read is the loaded items
\* the ledger lists, in ledger order, followed by the loaded items it does not
\* list, in arrival order; ledger ids that match no item have no effect.
C1_OrderOnLoad ==
    [][(FetchCompletes /\ fetchOp'.source = "backend") =>
           items' = ExpectedOrder(fetchOp'.loaded, fetchOp'.order)]_vars

\* the example of the specification: items 1, 2, 3 with ledger [3, 1] are
\* stored as 3, 1, 2
C1_Witness ==
    /\ fetchOp.pc = "idle" /\ fetchOp.source = "backend"
    /\ [k \in 1..Len(fetchOp.loaded) |-> fetchOp.loaded[k].id] = <<"1", "2", "3">>
    /\ fetchOp.order = <<"3", "1">>
    /\ [k \in 1..Len(items) |-> items[k].id] = <<"3", "1", "2">>

\* the same items, in some order
SameItems(a, b) == Len(a) = Len(b) /\ Range(a) = Range(b)

\* the items are those of the bundled files that loaded, or the defaults if
\* none did
FromStaticOrDefault(f, its) ==
    /\ f.staticTried
    /\ Len(f.staticGot) > 0 => SameItems(its, f.staticGot)
    /\ Len(f.staticGot) = 0 => its = DEFAULT_CONTENT

\* the cache entries a call of fetchContent is to look at: the GitHub hook
\* reads them when the call begins, the Firestore hook when it falls back
CacheContentSeen == IF hook = "github" THEN fetchOp'.saved ELSE cacheContent
CacheSettingsSeen == IF hook = "github" THEN fetchOp'.savedS ELSE cacheSettings

\* C9: when the backend read raises an error or yields no items, the stored
\* items are the cached copy if the cache holds one; otherwise those of the
\* bundled static files if one loads; otherwise DEFAULT_CONTENT.
C9_FallbackOrder ==
    [][(FetchCompletes /\ fetchOp'.backend \in {"error", "empty"}) =>
           /\ (CacheContentSeen.tag = "ok" /\ CacheSettingsSeen.tag # "corrupt") =>
                  items' = CacheContentSeen.val
           /\ CacheContentSeen.tag = "none" =>
                  FromStaticOrDefault(fetchOp', items')]_vars

\* C10: when a cache entry cannot be parsed during fetchContent, loading goes
\* on to the bundled static files, then the defaults: the static files are
\* never skipped.
C10_ParseFailureFallsThrough ==
    [][(FetchCompletes /\ fetchOp'.parseFailed) =>
           FromStaticOrDefault(fetchOp', items')]_vars

(***************************************************************************)
(* Claims about saveItem and deleteItem (SpecDB)                           *)
(***************************************************************************)
\* a step of the saveItem call in flight after its first await
SaveRemoteStep == SaveRunning /\ saveOp' # saveOp

\* the position of the item with the given id (0 if there is none)
PositionOf(seq, id) ==
    IF \E k \in 1..Len(seq) : seq[k].id = id
    THEN CHOOSE k \in 1..Len(seq) :
             seq[k].id = id /\ \A j \in 1..(k - 1) : seq[j].id # id
    ELSE 0

\* C2: saveItem(item) replaces, at its position, the item that has item.id,
\* leaving the length of the list and every other item where it was; if no
\* item has that id, item becomes the first element and the previous items
\* follow in their previous order. Nothing that follows in the call (backend
\* configured or not, remote writes accepted or not) touches the list.
C2_SaveItemLocal ==
    /\ [][\A item \in ItemPool :
            SaveStart(item) =>
                IF item.id \in IdsOf(items)
                THEN /\ Len(items') = Len(items)
                     /\ \A k \in 1..Len(items) :
                          items'[k] = IF items[k].id = item.id THEN item
                                      ELSE items[k]
                ELSE /\ Len(items') = Len(items) + 1
                     /\ items'[1] = item
                     /\ \A k \in 1..Len(items) : items'[k + 1] = items[k]]_vars
    /\ [][SaveRemoteStep => items' = items]_vars

\* an item was replaced at a position other than the first, the item write
\* was refused, and the list still holds the saved item at that position
C2_Witness ==
    /\ saveOp.pc = "idle" /\ saveOp.ret = "false" /\ configured
    /\ PositionOf(items, saveOp.item.id) >= 2
    /\ items[PositionOf(items, saveOp.item.id)] = saveOp.item
    /\ saveOp.item.title = "Renamed"

\* the step on which the deleteItem call in flight returns
DeleteCompletes == DeleteRunning /\ deleteOp'.pc = "idle"

Listed(ledger, id) == ledger.tag = "ok" /\ id \in Range(ledger.val)

\* C3 (as stated): when deleteItem(id) completes with a backend configured,
\* id is absent from the in-memory items and, if the persisted ledger listed
\* id, the persisted ledger no longer lists it.
C3_DeleteClearsLedger ==
    [][(DeleteCompletes /\ configured) =>
          /\ deleteOp.id \notin IdsOf(items')
          /\ Listed(remoteMeta, deleteOp.id) => ~Listed(remoteMeta', deleteOp.id)]_vars

\* C3 (amended): deleteItem(id) removes every item with that id from the
\* in-memory items when it is called, the other items keeping their order.
\* With a backend configured, a call whose record erase, ledger read and
\* ledger write are all accepted persists the ledger it read without id, the
\* other entries in their order; a call that ends in any other way leaves
\* the persisted ledger as it was.
C3_DeleteAmended ==
    /\ [][\A id \in Ids :
            DeleteStart(id) =>
                /\ id \notin IdsOf(items')
                /\ items' = SelectSeq(items, LAMBDA i : i.id # id)]_vars
    /\ [][(DeleteCompletes /\ deleteOp'.outcome = "done") =>
            /\ configured
            /\ remoteMeta' = Holding(SelectSeq(deleteOp.order,
                                               LAMBDA x : x # deleteOp.id))
            /\ ~Listed(remoteMeta', deleteOp.id)]_vars
    /\ [][(DeleteCompletes /\ deleteOp'.outcome # "done") =>
            remoteMeta' = remoteMeta]_vars

\* a call that found id both in the items and in the ledger has completed
\* with every backend call accepted: id is gone from both and the other
\* ledger entry is still there
C3_Witness ==
    /\ deleteOp.pc = "idle" /\ deleteOp.outcome = "done" /\ configured
    /\ Len(deleteOp.order) >= 2
    /\ deleteOp.id \in Range(deleteOp.order)
    /\ deleteOp.id \notin IdsOf(items)
    /\ remoteMeta.tag = "ok" /\ Len(remoteMeta.val) = Len(deleteOp.order) - 1
    /\ ~Listed(remoteMeta, deleteOp.id)

(***************************************************************************)
(* Claims about the hook's operations together (SpecHook)                  *)
(***************************************************************************)
\* the steps on which a call of saveItem, deleteItem, saveSettings begins
SaveBegins == ~SaveRunning /\ saveOp' # saveOp
DeleteBegins == ~DeleteRunning /\ deleteOp' # deleteOp
SettingsBegins == ~CfgRunning /\ cfgOp' # cfgOp /\ cfgOp'.kind = "settings"

\* C11: in saveItem, deleteItem and saveSettings the in-memory update is
\* made on the step that begins the call, which leaves the backend as it
\* was; the backend changes only on later steps of calls already begun, so
\* the new in-memory state is there while the first request is pending.
C11_LocalBeforeRemote ==
    /\ [][SaveBegins =>
            /\ saveOp'.item \in Range(items')
            /\ storeVars' = storeVars]_vars
    /\ [][DeleteBegins =>
            /\ deleteOp'.id \notin IdsOf(items')
            /\ storeVars' = storeVars]_vars
    /\ [][SettingsBegins =>
            /\ settings' = cfgOp'.arg
            /\ storeVars' = storeVars]_vars
    /\ [][storeVars' # storeVars => SaveRunning \/ DeleteRunning \/ CfgRunning]_vars

\* a saveItem and a saveSettings both stand at their first request, the
\* backend holds neither change, and the in-memory state shows both
C11_Witness ==
    /\ saveOp.pc \in {"fb_set", "gh_get"}
    /\ saveOp.item \in Range(items)
    /\ saveOp.item \notin Range(Listing(remoteItems))
    /\ cfgOp.pc \in {"fb_set", "gh_get"} /\ cfgOp.kind = "settings"
    /\ settings = cfgOp.arg /\ remoteSettings # Holding(cfgOp.arg)

\* the step on which the write of the item record, the erase of the item
\* record, or the write of the settings is answered with a refusal
ItemWriteRefused == saveOp.pc \in {"fb_set", "gh_put"} /\ saveOp'.pc = "idle"
EraseRefused == deleteOp.pc \in {"fb_del", "gh_del"} /\ deleteOp'.pc = "idle"
SettingsWriteRefused ==
    /\ cfgOp.kind = "settings"
    /\ cfgOp.pc \in {"fb_set", "gh_put"} /\ cfgOp'.pc = "idle"
    /\ remoteSettings' # Holding(cfgOp.arg)

\* a step of a call in flight after its first await
RemoteStep ==
    \/ SaveRunning /\ saveOp' # saveOp
    \/ DeleteRunning /\ deleteOp' # deleteOp
    \/ CfgRunning /\ cfgOp' # cfgOp

\* C12: when the write of the item record (saveItem), the erase of the item
\* record (deleteItem) or the write of the settings (saveSettings) is
\* refused, the call returns false and the record it was about is left as it
\* was; no step of a call after its first await, refused or not, changes the
\* in-memory items or settings, so the change made when the call began stays.
C12_LocalAlwaysWins ==
    /\ [][ItemWriteRefused =>
            saveOp'.ret = "false" /\ remoteItems' = remoteItems]_vars
    /\ [][EraseRefused =>
            deleteOp'.ret = "false" /\ remoteItems' = remoteItems]_vars
    /\ [][SettingsWriteRefused =>
            cfgOp'.ret = "false" /\ remoteSettings' = remoteSettings]_vars
    /\ [][RemoteStep => items' = items /\ settings' = settings]_vars

\* an erase and a settings write were both refused: both calls returned
\* false, the backend still holds the record and not the new settings, and
\* the in-memory state shows the deletion and the new settings
C12_Witness ==
    /\ deleteOp.pc = "idle" /\ deleteOp.ret = "false"
    /\ deleteOp.outcome = "erase_failed"
    /\ deleteOp.id \in IdsOf(Listing(remoteItems))
    /\ deleteOp.id \notin IdsOf(items)
    /\ cfgOp.pc = "idle" /\ cfgOp.kind = "settings" /\ cfgOp.ret = "false"
    /\ settings = cfgOp.arg /\ remoteSettings # Holding(cfgOp.arg)

(***************************************************************************)
(* Claims about the results of saveItem and deleteItem (SpecDB)            *)
(***************************************************************************)
\* the step on which the saveItem call in flight returns
SaveCompletes == SaveRunning /\ saveOp'.pc = "idle"

\* the call in flight stands at the write of its item record / at one of the
\* ledger calls that follow it
AtItemWrite == saveOp.pc \in {"fb_set", "gh_put"}
AtLedgerUpdate ==
    saveOp.pc \in {"fb_meta_get", "fb_meta_set", "gh_meta_get", "gh_meta_put"}

\* C13: with a backend configured, saveItem returns true exactly when the
\* write of the item record was accepted: a refused write returns false at
\* once, an accepted one leaves the record in the backend, and every way the
\* ledger read and write that follow can end returns true and leaves the
\* content records as they are.
C13_SaveResultIsItemWrite ==
    /\ [][(SaveCompletes /\ AtItemWrite) =>
            saveOp'.ret = "false" /\ remoteItems' = remoteItems]_vars
    /\ [][(AtItemWrite /\ saveOp'.pc \notin {"idle", saveOp.pc}) =>
            FileAt(remoteItems', RecordKey(hook, saveOp.item))
                = Holding(saveOp.item)]_vars
    /\ [][(AtLedgerUpdate /\ saveOp' # saveOp) => remoteItems' = remoteItems]_vars
    /\ [][(SaveCompletes /\ AtLedgerUpdate) => saveOp'.ret = "true"]_vars
    /\ [][SaveCompletes => AtItemWrite \/ AtLedgerUpdate]_vars

\* a save returned true with its record in the backend although the ledger,
\* which did not list the id, was not updated
C13_Witness ==
    /\ saveOp.pc = "idle" /\ saveOp.ret = "true" /\ configured
    /\ FileAt(remoteItems, RecordKey(hook, saveOp.item)) = Holding(saveOp.item)
    /\ ~Listed(remoteMeta, saveOp.item.id)
    /\ deleteOp.ret = "none"

\* the deleteItem call in flight has had its erase accepted and stands at one
\* of the ledger calls that follow it
AtDeleteLedgerUpdate ==
    deleteOp.pc \in {"fb_meta_get", "fb_meta_set", "gh_meta_get", "gh_meta_put"}

\* C14: with a backend configured, deleteItem(id) returns true exactly when
\* the erase of the record was accepted: once the record is erased the call
\* returns true however the ledger update ends, and a call that returns true
\* without having erased leaves no record with that id in the backend (a
\* failed lookup or erase is reported as false).
C14_DeleteResultIsErase ==
    [][(DeleteCompletes /\ configured) =>
          /\ AtDeleteLedgerUpdate => deleteOp'.ret = "true"
          /\ (deleteOp'.ret = "true" /\ ~AtDeleteLedgerUpdate) =>
                 deleteOp.id \notin IdsOf(Listing(remoteItems'))]_vars

(***************************************************************************)
(* Claims about the hook with no backend configured (SpecLocal)            *)
(***************************************************************************)
\* the step on which a call of fetchContent returns
FetchEnds == fetchOp.pc # "idle" /\ fetchOp'.pc = "idle"

\* C15: with no backend configured, the fetchContent that follows a page
\* reload ends with the in-memory items and settings equal to those held
\* just before the reload, whatever saveItem, deleteItem and saveSettings
\* had changed.
C15_LocalRoundTrip ==
    [][(FetchEnds /\ ~configured /\ beforeReload.reloaded) =>
          /\ items' = beforeReload.items
          /\ settings' = beforeReload.settings]_vars

\* the awaits of fetchContent that stand for a request to the backend
BackendReads ==
    {"fb_settings", "fb_content", "fb_meta", "gh_settings", "gh_meta", "gh_files"}

\* C16: with no backend configured, no operation of the hook is ever at a
\* request to the backend (fetchContent skips the backend read, saveItem,
\* deleteItem, saveSettings and saveMeta return without an await), the
\* backend is never changed, and every result returned is true.
C16_ConfigurationAbsent ==
    ~configured =>
        /\ fetchOp.pc \notin BackendReads
        /\ fetchOp.backend = "skipped"
        /\ ~SaveRunning /\ ~DeleteRunning /\ ~CfgRunning
        /\ remoteItems = <<>> /\ remoteMeta = Absent /\ remoteSettings = Absent
        /\ saveOp.ret \in {"none", "true"}
        /\ deleteOp.ret \in {"none", "true"}
        /\ cfgOp.ret \in {"none", "true"}

\* with no backend configured the content was loaded and a saveItem and a
\* saveMeta have returned true
C16_Witness ==
    /\ ~configured /\ fetchOp.pc = "idle" /\ fetchOp.backend = "skipped"
    /\ saveOp.ret = "true" /\ saveOp.item \in Range(items)
    /\ cfgOp.ret = "true" /\ cfgOp.kind = "meta"

(***************************************************************************)
(* Claims about two sessions on one repository (SpecTwo)                   *)
(***************************************************************************)
\* the file the call in flight is about to PUT has a revision in the
\* repository other than the one the call read
ItemShaStale ==
    LET current == FileAt(remoteItems, generateFilename(saveOp.item))
    IN  saveOp.pc = "gh_put" /\ current.tag = "ok" /\ current # saveOp.sha
SettingsShaStale ==
    /\ cfgOp.pc = "gh_put" /\ cfgOp.kind = "settings"
    /\ remoteSettings.tag = "ok" /\ remoteSettings # cfgOp.sha

\* C17: in useGitHubDB, a PUT of an item file or of settings.json that comes
\* with a revision other than the file's current one (another session has
\* committed the file since it was read) is rejected: the repository keeps
\* the other session's content, the call returns false on that very step,
\* and so makes no second attempt.
C17_StaleShaRejected ==
    /\ [][(ItemShaStale /\ saveOp' # saveOp) =>
            /\ remoteItems' = remoteItems
            /\ saveOp'.pc = "idle" /\ saveOp'.ret = "false"]_vars
    /\ [][(SettingsShaStale /\ cfgOp' # cfgOp) =>
            /\ remoteSettings' = remoteSettings
            /\ cfgOp'.pc = "idle" /\ cfgOp'.ret = "false"]_vars

\* a saveItem has returned false, its file in the repository holds what the
\* other session committed, and the in-memory list holds the item saved
C17_Witness ==
    /\ saveOp.pc = "idle" /\ saveOp.ret = "false"
    /\ saveOp.item \in Range(items)
    /\ \E it \in OtherItems :
         /\ generateFilename(it) = generateFilename(saveOp.item)
         /\ FileAt(remoteItems, generateFilename(it)) = Holding(it)

(***************************************************************************)
(* Claims about the ordering ledger (SpecDB)                               *)
(***************************************************************************)
\* the entries of a persisted ledger ([] if there is none)
Entries(ledger) == IF ledger.tag = "ok" THEN ledger.val ELSE <<>>

\* the step on which the ledger write of the saveItem call in flight is
\* answered
SaveLedgerWriteStep ==
    saveOp.pc \in {"fb_meta_set", "gh_meta_put"} /\ saveOp' # saveOp

\* C18: when saveItem's ledger write is accepted for an item whose id the
\* persisted ledger does not list, the persisted ledger becomes that id
\* followed by the entries it held, in their order (one session, a backend
\* configured, both hooks).
C18_LedgerOnCreate ==
    [][(SaveLedgerWriteStep /\ ~Listed(remoteMeta, saveOp.item.id)
          /\ remoteMeta' # remoteMeta) =>
          /\ saveOp'.ret = "true"
          /\ remoteMeta' = Holding(<<saveOp.item.id>> \o Entries(remoteMeta))]_vars

(***************************************************************************)
(* Claims about useFirebaseDB's mount effect (SpecMount)                   *)
(***************************************************************************)
\* C19: with Firebase configured, fetchContent has not been called, and so
\* no backend read is in flight or done, until the auth listener has
\* reported a user or the anonymous sign-in has been tried and has failed.
C19_ReadAfterAuth ==
    (hook = "firebase" /\ configured) =>
        /\ fetchOp.pc # "init" => fbAuth \in {"user", "signin_failed"}
        /\ fbAuth \in {"unknown", "signing_in", "signed_in"} =>
               /\ fetchOp.pc = "init" /\ fetchOp.backend = "skipped"
               /\ isLoading /\ items = <<>>

\* the content documents are being read after an anonymous sign-in that
\* failed
C19_Witness ==
    /\ hook = "firebase" /\ configured
    /\ fbAuth = "signin_failed" /\ fetchOp.pc = "fb_content"

(***************************************************************************)
(* Claims about the end of fetchContent (FairFetch)                        *)
(***************************************************************************)
\* C20: every call of fetchContent whose requests are all answered returns,
\* and whenever a call has returned isLoading is false and the in-memory
\* items are those of the source it ended on (the backend, the cache, the
\* static files, or DEFAULT_CONTENT, also after a failure that reached the
\* outer catch).
C20_LoadAlwaysEnds ==
    /\ [](fetchOp.pc = "idle" =>
            /\ ~isLoading
            /\ fetchOp.source \in {"backend", "cache", "static", "default", "catch"}
            /\ Len(items) > 0
            /\ fetchOp.source \in {"default", "catch"} => items = DEFAULT_CONTENT)
    /\ (FetchRunning ~> fetchOp.pc = "idle")

\* a call that met a backend error, or a cache entry it could not parse, has
\* returned with isLoading false and the default items
C20_Witness ==
    /\ fetchOp.pc = "idle" /\ ~isLoading
    /\ fetchOp.backend = "error" \/ fetchOp.parseFailed
    /\ items = DEFAULT_CONTENT

(***************************************************************************)
(* Claims about the ids of the in-memory items (SpecDB)                    *)
(***************************************************************************)
\* no two items of the list have the same id
UniqueIds(seq) == \A j, k \in 1..Len(seq) : j # k => seq[j].id # seq[k].id

\* C21: a saveItem or deleteItem call made on a list that holds no id twice
\* leaves a list that holds no id twice, and no later step of the call
\* (whatever the backend answers) changes the list; so a list without
\* duplicate ids stays so over any sequence of saveItem and deleteItem calls.
C21_IdsStayUnique ==
    /\ [][(SaveBegins \/ DeleteBegins) =>
            (UniqueIds(items) => UniqueIds(items'))]_vars
    /\ [][(SaveRemoteStep \/ (DeleteRunning /\ deleteOp' # deleteOp)) =>
            items' = items]_vars

\* a new item was saved and another deleted, the erase being refused: the
\* list holds the new item and one other, under different ids
C21_Witness ==
    /\ saveOp.pc = "idle" /\ saveOp.item.id = "3" /\ saveOp.item \in Range(items)
    /\ deleteOp.pc = "idle" /\ deleteOp.outcome = "erase_failed"
    /\ deleteOp.id \notin IdsOf(items)
    /\ Len(items) = 2 /\ UniqueIds(items)

(***************************************************************************)
(* Claims about editing an item (SpecDB)                                   *)
(***************************************************************************)
\* C22: no step of a saveItem call for an item whose id the in-memory list
\* already held when the call was made changes the persisted ordering
\* ledger, whether or not the ledger lists that id.
C22_EditKeepsLedger ==
    [][(SaveRemoteStep /\ saveOp.exists) => remoteMeta' = remoteMeta]_vars

(***************************************************************************)
(* Claims about the files of useGitHubDB (SpecDB)                          *)
(***************************************************************************)
\* no two records of the store carry the same id
OneFilePerId(r) == \A j, k \in DOMAIN r : j # k => r[j].id # r[k].id

\* C23: in useGitHubDB, a step of saveItem taken on a content folder that
\* holds at most one file per item id leaves a folder that holds at most one
\* file per item id (so saving an existing item under a changed title or
\* type leaves no second file carrying its id).
C23_OneFilePerId ==
    [][(hook = "github" /\ SaveRemoteStep /\ OneFilePerId(remoteItems)) =>
          OneFilePerId(remoteItems')]_vars

\* C27: in useGitHubDB, no step of saveItem(item) changes or removes the
\* file of an item whose id is not item.id, whatever the types and titles
\* of the two items.
C27_OtherFilesUntouched ==
    [][(hook = "github" /\ SaveRemoteStep) =>
          \A k \in DOMAIN remoteItems :
              remoteItems[k].id # saveOp.item.id =>
                  (k \in DOMAIN remoteItems' /\ remoteItems'[k] = remoteItems[k])]_vars

(***************************************************************************)
(* Claims about the static-file fallback (SpecFetch)                       *)
(***************************************************************************)
\* the call in flight ends on the bundled item files, no backend being
\* configured and the cache holding no content
StaticFallbackEnds ==
    /\ ~configured /\ cacheContent = Absent
    /\ fetchOp.pc = "static" /\ fetchOp'.pc = "idle"
    /\ fetchOp'.source = "static"

\* C24: with no backend configured and an empty cache, fetchContent of
\* either hook stores the bundled items that loaded in the order of the
\* bundled ledger, the items the ledger does not list last in arrival
\* order; so both hooks store the same list for the same bundle.
C24_StaticFallbackOrder ==
    [][StaticFallbackEnds =>
          items' = ExpectedOrder(fetchOp'.staticGot, fetchOp'.staticOrder)]_vars

(***************************************************************************)
(* Claims about the lockout across navigation (SpecNav)                    *)
(***************************************************************************)
\* a step of App's navigation: the menu, a view switch, an item opened or
\* closed
NavigationStep == lastOp' \in {"menu", "nav", "nav_fire", "home", "item", "back"}

\* C25: within one page session, navigation between views leaves Login's
\* failure count, lock and countdown as they are, so a form locked after 3
\* failures is still locked, with its countdown, when the user comes back to
\* the LOGIN view.
C25_LockoutSurvivesNavigation ==
    [][NavigationStep => UNCHANGED <<attempts, isLocked, lockoutTimer>>]_vars

(***************************************************************************)
(* Claims about saveItem overlapping fetchContent (SpecDB)                 *)
(***************************************************************************)
\* C28: when a fetchContent call returns while a saveItem(item) call of the
\* same hook is in flight, and no deleteItem has been issued, the in-memory
\* items hold item as saved (nothing but a fetchContent or a deleteItem
\* changes them until the saveItem returns).
C28_SaveSurvivesFetch ==
    [][(FetchEnds /\ SaveRunning /\ saveOp' = saveOp
          /\ ~DeleteRunning /\ deleteOp.ret = "none") =>
          saveOp.item \in Range(items')]_vars

(***************************************************************************)
(* Claims about two sessions on one backend (SpecPair)                     *)
(***************************************************************************)
\* this session and the other have each completed a saveItem that returned
\* true, for different ids, this session's being new to its list, and
\* neither session has issued a deleteItem
BothCreated ==
    /\ saveOp.pc = "idle" /\ saveOp.ret = "true" /\ ~saveOp.exists
    /\ otherOp.pc = "idle" /\ otherOp.ret = "true" /\ otherOp.kind = "save"
    /\ saveOp.item.id # otherOp.id
    /\ ~DeleteRunning /\ deleteOp.ret = "none"

\* C26: once two sessions have each completed a saveItem for a new id of
\* their own against the same backend, both calls returning true, the
\* persisted ledger lists both ids, however their backend reads and writes
\* were interleaved.
C26_ConcurrentCreates ==
    BothCreated =>
        {saveOp.item.id, otherOp.id} \subseteq Range(Entries(remoteMeta))

\* no entry occurs twice
NoDuplicates(seq) == \A j, k \in 1..Len(seq) : j # k => seq[j] # seq[k]

\* C29: the persisted ledger, which lists no id twice to begin with, lists
\* no id twice after any interleaving of the saveItem and deleteItem calls
\* of one or two sessions, whichever of their backend calls fail.
C29_LedgerNoDuplicates == NoDuplicates(Entries(remoteMeta))

\* both sessions have saved the same new item 3: the ledger lists 3 once,
\* before the entry it held
C29_Witness ==
    /\ saveOp.pc = "idle" /\ saveOp.ret = "true" /\ saveOp.item.id = "3"
    /\ otherOp.pc = "idle" /\ otherOp.ret = "true" /\ otherOp.kind = "save"
    /\ otherOp.id = "3"
    /\ remoteMeta.tag = "ok" /\ Len(remoteMeta.val) >= 2
    /\ remoteMeta.val[1] = "3" /\ NoDuplicates(remoteMeta.val)

(***************************************************************************)
(* Claims about the Login component (SpecLogin, FairLogin)                 *)
(***************************************************************************)
\* C5: once the form is locked the countdown starts at LOCKOUT_DURATION (30);
\* the countdown changes only by being set to 30 on locking or by going down
\* by exactly 1; the form is unlocked only from a countdown of 0, and that
\* step resets the failure count to 0; under fair ticking a locked form is
\* eventually unlocked.
C5_LockoutCountdown ==
    /\ [][(~isLocked /\ isLocked') => lockoutTimer' = LOCKOUT_DURATION]_vars
    /\ [][lockoutTimer' # lockoutTimer =>
              \/ lockoutTimer' = lockoutTimer - 1
              \/ (~isLocked /\ isLocked' /\ lockoutTimer' = LOCKOUT_DURATION)]_vars
    /\ [][(isLocked /\ ~isLocked') => (lockoutTimer = 0 /\ attempts' = 0)]_vars
    /\ (isLocked ~> ~isLocked)

\* a lock has run its whole countdown and been released
C5_Witness ==
    lastOp = "unlock" /\ ~isLocked /\ attempts = 0 /\ lockoutTimer = 0

\* C6: a submit while the form is locked calls onLogin not at all, leaves the
\* failure count, the countdown and the lock as they are, and does not
\* authenticate, whatever the password (the correct one included).
C6_LockedSubmitIsNoOp ==
    [][\A p \in Passwords :
         (isLocked /\ SubmitDirect(p)) =>
             /\ loginRet' = "none"
             /\ UNCHANGED <<attempts, lockoutTimer, isLocked>>
             /\ UNCHANGED <<isAuthenticated, sessionFlag>>]_vars

\* a submit has been made to a locked form, and nobody is authenticated
C6_Witness ==
    lastOp = "submit_locked" /\ isLocked /\ lockoutTimer > 0 /\ ~isAuthenticated

\* C30: for Login with a boolean-returning onLogin, over every sequence of
\* submits and timer ticks: attempts is between 0 and 3 and lockoutTimer
\* between 0 and 30; and, once the pending effect has run, the form is
\* locked exactly when attempts is 3 and is locked whenever lockoutTimer is
\* above 0.
C30_LoginStateInvariants ==
    /\ attempts \in 0..MAX_ATTEMPTS
    /\ lockoutTimer \in 0..LOCKOUT_DURATION
    /\ ~effectPending =>
           /\ isLocked <=> attempts = MAX_ATTEMPTS
           /\ lockoutTimer > 0 => isLocked

\* the form is locked after 3 failures, the countdown has gone below 30 and
\* no effect is pending
C30_Witness ==
    /\ ~effectPending /\ isLocked /\ attempts = MAX_ATTEMPTS
    /\ lockoutTimer > 0 /\ lockoutTimer < LOCKOUT_DURATION

(***************************************************************************)
(* Claims about the access gate in the application as wired (SpecApp)      *)
(***************************************************************************)
\* C4: in App as wired, every wrong password submitted to the login form
\* counts as a failed attempt, and the form is locked exactly from the 3rd
\* wrong password on (not after 1 or 2, locked after the 3rd).
C4_LockOnThirdFailure ==
    /\ (~isLocked => attempts = failStreak)
    /\ ((failStreak >= MAX_ATTEMPTS) <=> isLocked)

\* what App as wired does instead: Login is never locked and counts nothing
AppNeverLocks == ~isLocked /\ attempts = 0 /\ ~intervalOn

\* C7: login(p) returns true exactly when p is the configured secret, and
\* then sets isAuthenticated and the session flag; a wrong password returns
\* false and changes neither; logout clears both; so once useAuth has
\* mounted, isAuthenticated holds exactly when the session flag is 'true'.
C7_AuthMatchesSessionFlag ==
    /\ [](authMounted => (isAuthenticated <=> sessionFlag = "true"))
    /\ [][\A p \in Passwords :
            (SubmitApp(p) /\ ~isLocked) =>
                /\ (loginRet' = "true") <=> (p = ADMIN_PASSWORD)
                /\ (loginRet' = "false") <=> (p # ADMIN_PASSWORD)
                /\ p = ADMIN_PASSWORD =>
                       (isAuthenticated' /\ sessionFlag' = "true")
                /\ p # ADMIN_PASSWORD =>
                       UNCHANGED <<isAuthenticated, sessionFlag>>]_vars
    /\ [][HandleLogout => (~isAuthenticated' /\ sessionFlag' # "true")]_vars

\* a login has been followed by a logout
C7_Witness ==
    lastOp = "logout" /\ authMounted /\ ~isAuthenticated /\ sessionFlag = "null"

\* C8: under every interleaving of navigation (with its delayed view
\* switch), login and logout, the CMS editor is rendered only while
\* isAuthenticated holds; a navigation to CMS requested while unauthenticated
\* ends in the LOGIN view being shown.
C8_AccessGate ==
    /\ [](RenderedView = "CMS" => isAuthenticated)
    /\ [][\A t \in navTimers :
            (NavFire(t) /\ t.view = "CMS" /\ ~t.auth) =>
                RenderedView' = "LOGIN"]_vars

\* a delayed switch to CMS, requested while logged in, has fired after the
\* logout: currentView is CMS and the editor is not rendered
C8_Witness ==
    /\ lastOp = "nav_fire" /\ currentView = "CMS"
    /\ ~isAuthenticated /\ authMounted /\ RenderedView = "NONE"

====
